---- MODULE Spec2Model ----
(***************************************************************************)
(* Deployment pipelines of the neo-price-feed scripts:                       *)
(*   PD  scripts/production_deploy.py     ProductionDeployer                 *)
(*   ND  scripts/rpc_deploy_complete.py   Neo3Deployer                       *)
(*   TB  scripts/deploy_transaction.py    Neo3TransactionBuilder (+ main)    *)
(*   SR  scripts/simple_rpc_deploy.py     Neo3RpcDeployer (validation only)  *)
(*   WR  scripts/working_rpc_deploy.py    Neo3RpcDeployment (analysis only)  *)
(*   SB  scripts/neo3_transaction_builder.py  Neo3ScriptBuilder (scripts)    *)
(* A run starts after the deployer object is constructed.  Each RPC call is  *)
(* one step; the node (block height) and the wall clock move between steps.  *)
(* Byte strings are sequences of 0..255.  Integers that may exceed 31 bits   *)
(* (fees) are kept as their 8 little-endian bytes.                           *)
(* SpecApply applies the encoders, script builders and signature functions  *)
(* on their own, each to inputs drawn in its initial states.                 *)
(* SpecInitialize follows the contract initialization scripts:              *)
(*   AI  scripts/auto-initialize.py        neo-mamba commands                *)
(*   EI  scripts/execute-initialization.py transactions                      *)
(***************************************************************************)
EXTENDS Integers, Sequences, FiniteSets, TLC

VARIABLES
    variant,        \* which script runs
    nef,            \* bytes of the .nef file
    manifest,       \* text of the manifest file (UTF-8 bytes)
    master_wif,     \* the text of the module constant MASTER_WIF
    self_private_key, \* the private_key attribute of the deployer object
    entropy,        \* what the random source holds for the signing step
    height,         \* node: current block count
    gas,            \* node: GAS amount of MASTER_ADDRESS, in datoshi
    clock,          \* wall clock, seconds
    advances,       \* number of height changes so far
    ticks,          \* number of clock changes so far
    pc,             \* position of the run
    rpcLog,         \* methods passed to rpc_call, in order
    block_count,    \* height printed by the connectivity check
    current_height, \* height read for the build (0: not read)
    script,         \* deployment script
    system_fee,     \* 8 little-endian bytes
    network_fee,    \* integer
    tx,             \* transaction fields
    unsigned_tx,    \* serialization handed to the signer
    witness,        \* serialized witness
    signed_tx,      \* bytes passed to sendrawtransaction
    result,         \* value returned by the run: a hash text or "None"
    failure,        \* which failure branch ended the run
    sendOutcome,    \* outcome of the sendrawtransaction call
    invokeState,    \* what the invokescript dry run reported
    signOutcome,    \* outcome of the signing step
    reportedGas,    \* GAS amount computed from getnep17balances (-1: none)
    heightAtSend,   \* node height when sendrawtransaction was issued
    signedDigest,   \* digest handed to the signature function (<<>>: none)
    fn,             \* function applied on its own ("none": a pipeline run)
    impl,           \* the script whose copy of the function is applied
    arg,            \* its input
    outs,           \* the outputs of its applications so far
    init_script,    \* initialization script that runs ("none": none)
    already_initialized, \* contract: an owner was set before the run
    env_key,        \* MASTER_ACCOUNT_PRIVATE_KEY is set in the environment
    init_gas,       \* node: GAS of the account, in datoshi (EI)
    ipc,            \* position of the initialization run
    check_seen,     \* the answer to the getOwner query (NoAnswer: none yet)
    issued,         \* contract operations issued, in order
    succeeded,      \* operations whose command or submission succeeded
    reports         \* messages that tell how the run ended, in order

vars == <<variant, nef, manifest, master_wif, self_private_key, entropy,
          height, gas, clock, advances, ticks, pc, rpcLog, block_count, current_height,
          script, system_fee, network_fee, tx, unsigned_tx, witness,
          signed_tx, result, failure, sendOutcome, invokeState, signOutcome,
          reportedGas, heightAtSend, signedDigest, fn, impl, arg, outs,
          init_script, already_initialized, env_key, init_gas, ipc,
          check_seen, issued, succeeded, reports>>

nodeVars == <<height, gas, advances>>
inputVars == <<variant, nef, manifest, master_wif, self_private_key,
              entropy>>
applyVars == <<fn, impl, arg, outs>>
initInputs == <<init_script, already_initialized, env_key, init_gas>>
initVars == <<initInputs, ipc, check_seen, issued, succeeded, reports>>
envVars == <<height, gas, advances, clock, ticks>>
obsVars == <<sendOutcome, invokeState, signOutcome, reportedGas, heightAtSend,
            signedDigest>>
buildVars == <<script, system_fee, network_fee, tx, unsigned_tx, witness,
               signed_tx>>
runVars == <<inputVars, envVars, pc, rpcLog, block_count, current_height,
             buildVars, result, failure, obsVars>>

----------------------------------------------------------------------------
(* Bounds of the model *)

MaxAdvances == 1
MaxTicks == 1
\* builds of a transaction in one case, and seconds between two builds
MaxBuilds == 2
MaxElapsed == 1
NumSeeds == 2
NumFills == 2
NumDraws == 2
MaxSignings == 2
StartHeight == 5
StartClock == 1750000000

(* Program constants *)

Window == 1000
MinGas == 15
DatoshiPerGas == 100000000
FeePerByte == 1000
OverheadPD == 300
OverheadND == 200
OverheadTB == 250
SYSTEM_CONTRACT_CALL == 1652382546
NetworkMagic == 894710606

Deployers == {"PD", "ND", "TB"}
Variants == Deployers \cup {"SR", "WR"}

----------------------------------------------------------------------------
(* Bytes *)

RECURSIVE LE(_, _)
\* struct.pack little-endian of width k (value taken modulo 256^k)
LE(n, k) == IF k = 0 THEN <<>> ELSE <<n % 256>> \o LE(n \div 256, k - 1)

Zeros(k) == [i \in 1..k |-> 0]

\* data[::-1]
Reverse(s) == [i \in 1..Len(s) |-> s[Len(s) + 1 - i]]

\* the two hex digits of a byte exchanged
SwapNibbles(b) == (b % 16) * 16 + (b \div 16)

StartsWith(s, p) == Len(s) >= Len(p) /\ SubSeq(s, 1, Len(p)) = p

\* a non-negative integer below 2^31 as 8 little-endian bytes
Wide(n) == LE(n, 8)

\* 10_000_000_000 = 0x00000002540BE400
FallbackSystemFee == <<0, 228, 11, 84, 2, 0, 0, 0>>

NefMagic == <<78, 69, 70, 51>>

----------------------------------------------------------------------------
(* Fixed values of the scripts *)

\* address_to_script_hash(MASTER_ADDRESS): bytes 1..20 of the Base58 decoding
script_hash == <<86, 28, 192, 99, 208, 239, 227, 6, 46, 204, 212, 183, 191,
                 66, 252, 142, 231, 70, 49, 12>>

\* wif_to_private_key(MASTER_WIF) of production_deploy.py
private_key == <<104, 225, 80, 131, 166, 253, 24, 123, 111, 95, 97, 54, 186,
                 218, 78, 176, 15, 9, 110, 94, 33, 216, 44, 116, 237, 246,
                 240, 134, 232, 5, 57, 186>>

\* 0xfffdc93764dbaddd97c48f252a53ea4643faa3fd, bytes in display order
ManagementDisplay == <<255, 253, 201, 55, 100, 219, 173, 221, 151, 196, 143,
                       37, 42, 83, 234, 70, 67, 250, 163, 253>>

\* MANAGEMENT_CONTRACT of simple_rpc_deploy.py: the same hash, already reversed
ManagementSR == Reverse(ManagementDisplay)

DeployName == <<100, 101, 112, 108, 111, 121>>

----------------------------------------------------------------------------
(* Script builders *)

\* ProductionDeployer._emit_push_data, Neo3Deployer._emit_push_data,
\* Neo3RpcDeployer._create_push_data_opcode
PushData(data) ==
    LET length == Len(data) IN
    IF length <= 75 THEN <<length>> \o data
    ELSE IF length <= 255 THEN <<12, length>> \o data
    ELSE IF length <= 65535 THEN <<13>> \o LE(length, 2) \o data
    ELSE <<14>> \o LE(length, 4) \o data

\* Neo3TransactionBuilder._push_data: the 2-byte class is assembled from
\* slices of the reversed hex text
PushDataTB(data) ==
    LET length == Len(data) IN
    IF length <= 75 THEN <<length>> \o data
    ELSE IF length <= 255 THEN <<12, length>> \o data
    ELSE IF length <= 65535
         THEN <<SwapNibbles(data[length]), SwapNibbles(data[length - 1]),
                length % 256>> \o data \o data
    ELSE <<14>> \o LE(length, 4) \o data

\* Neo3ScriptBuilder.emit_push_data; above 4294967295 bytes it raises
emit_push_data(data) ==
    LET length == Len(data) IN
    (IF length <= 75 THEN <<length>>
     ELSE IF length <= 255 THEN <<12, length>>
     ELSE IF length <= 65535 THEN <<13>> \o LE(length, 2)
     ELSE <<14>> \o LE(length, 4)) \o data

\* the push-data function of each script
PushDataOf(i, data) ==
    CASE i = "TB" -> PushDataTB(data)
      [] i = "SB" -> emit_push_data(data)
      [] OTHER -> PushData(data)

\* ProductionDeployer.create_deploy_script
DeployScriptPD(n, m) ==
    PushData(m) \o PushData(n) \o <<82>> \o <<193>> \o PushData(DeployName)
    \o PushData(Reverse(ManagementDisplay)) \o <<65>> \o <<82, 91, 214, 39>>

\* Neo3Deployer.create_deployment_script
DeployScriptND(n, m) ==
    PushData(m) \o PushData(n) \o <<82>> \o <<193>> \o PushData(DeployName)
    \o PushData(Reverse(ManagementDisplay)) \o <<65>> \o <<82, 91, 125, 98>>

\* Neo3TransactionBuilder.create_deployment_script
DeployScriptTB(n, m) ==
    PushDataTB(m) \o PushDataTB(n) \o <<82>> \o <<193>>
    \o PushDataTB(DeployName) \o PushDataTB(Reverse(ManagementDisplay))
    \o <<65>> \o <<98, 125, 91, 82>>

\* Neo3RpcDeployer.create_deployment_script_hex (after its validations)
DeployScriptSR(n, m) ==
    PushData(m) \o PushData(n) \o <<82>> \o <<193>> \o PushData(DeployName)
    \o PushData(Reverse(ManagementSR)) \o <<65>> \o <<82, 91, 214, 39>>

\* struct.pack of a signed integer of k bytes, little-endian
SignedLE(n, k) ==
    IF n >= 0 THEN LE(n, k)
    ELSE LET low == LE(n + 2147483647 + 1, k) IN
         IF k < 4 THEN low ELSE SubSeq(low, 1, 3) \o <<low[4] + 128>>

\* Neo3ScriptBuilder.emit_push_int
emit_push_int(value) ==
    IF value = 0 THEN <<16>>
    ELSE IF 1 <= value /\ value <= 16 THEN <<80 + value>>
    ELSE IF -128 <= value /\ value <= 127 THEN <<0>> \o SignedLE(value, 1)
    ELSE IF -32768 <= value /\ value <= 32767
         THEN <<1>> \o SignedLE(value, 2)
    ELSE <<2>> \o SignedLE(value, 4)

\* the result of a function that may raise: a value or an exception
Ok(v) == [err |-> "none", val |-> v]
Raised(e) == [err |-> e, val |-> <<>>]

\* an integer argument as 8 bytes, two's complement, little-endian
SignExtends(w, k) ==
    \A i \in (k + 1)..8 : w[i] = (IF w[k] >= 128 THEN 255 ELSE 0)

\* the integer a sign-extended 4-byte value stands for
Int32Value(w) ==
    IF w[4] < 128
    THEN w[1] + 256 * w[2] + 65536 * w[3] + 16777216 * w[4]
    ELSE (w[1] + 256 * w[2] + 65536 * w[3] + 16777216 * (w[4] - 128))
         - 2147483647 - 1

\* Neo3ScriptBuilder.emit_push_int on any 64-bit argument, on a new
\* builder; val is builder.script after the call.  Past the 16-bit range
\* the opcode PUSHINT32 is appended and then struct.pack('<i', value) is
\* called, which raises struct.error for a value outside 32 bits: the
\* builder is left holding the opcode
emit_push_int_wide(w) ==
    IF SignExtends(w, 4) THEN Ok(emit_push_int(Int32Value(w)))
    ELSE [err |-> "struct.error", val |-> <<2>>]

\* Neo3ScriptBuilder.emit_syscall
emit_syscall(syscall_id) == <<65>> \o LE(syscall_id, 4)

\* Neo3DeploymentTransaction.create_deploy_script; a NEF without the magic
\* raises ValueError and no script is returned
DeployScriptSB(n, m) ==
    IF ~StartsWith(n, NefMagic) THEN <<>>
    ELSE emit_push_data(m) \o emit_push_data(n) \o emit_push_int(2)
         \o <<193>> \o emit_push_data(DeployName)
         \o emit_push_data(Reverse(ManagementDisplay))
         \o emit_syscall(SYSTEM_CONTRACT_CALL)

DeployScript(v, n, m) ==
    CASE v = "PD" -> DeployScriptPD(n, m)
      [] v = "ND" -> DeployScriptND(n, m)
      [] v = "TB" -> DeployScriptTB(n, m)
      [] v = "SR" -> DeployScriptSR(n, m)
      [] v = "SB" -> DeployScriptSB(n, m)
      [] OTHER -> <<>>

\* json.loads(manifest_data) and the "name" lookup, on the manifest texts used
ManifestNamed == <<123, 34, 110, 97, 109, 101, 34, 58, 49, 125>>
ManifestEmptyObject == <<123, 125>>
ManifestBroken == <<123>>
JsonKind(text) ==
    IF text = ManifestNamed THEN "named"
    ELSE IF text = ManifestEmptyObject THEN "noname"
    ELSE "invalid"

----------------------------------------------------------------------------
(* Transaction serialization *)

HighZero(w, from) == \A i \in from..8 : w[i] = 0

\* ProductionDeployer._encode_varint, Neo3Transaction._serialize_varint
EncodeVarint(w) ==
    IF HighZero(w, 2) /\ w[1] < 253 THEN <<w[1]>>
    ELSE IF HighZero(w, 3) THEN <<253, w[1], w[2]>>
    ELSE IF HighZero(w, 5) THEN <<254>> \o SubSeq(w, 1, 4)
    ELSE <<255>> \o w

\* Neo3TransactionBuilder._encode_varint: the 2-byte class is assembled from
\* slices of the reversed hex text
EncodeVarintTB(w) ==
    IF HighZero(w, 2) /\ w[1] < 253 THEN <<w[1]>>
    ELSE IF HighZero(w, 3)
         THEN <<SwapNibbles(w[1]), SwapNibbles(w[2]), w[1]>>
    ELSE IF HighZero(w, 5) THEN <<254>> \o SubSeq(w, 1, 4)
    ELSE <<255>> \o w

\* the varint encoder of each script
VarintOf(v, w) == IF v = "TB" THEN EncodeVarintTB(w) ELSE EncodeVarint(w)

RECURSIVE Concat(_)
Concat(ss) == IF ss = <<>> THEN <<>> ELSE Head(ss) \o Concat(Tail(ss))

\* the value of tx while no transaction has been built: deploy_contract and
\* deploy_contract_production before they create one
NoTx == [version |-> 0, nonce |-> <<>>, system_fee |-> <<>>,
         network_fee |-> 0, valid_until_block |-> 0, signers |-> <<>>,
         attributes |-> <<>>, script |-> <<>>, witnesses |-> <<>>]

\* ProductionDeployer.serialize_unsigned_tx
SerializeUnsignedPD(t) ==
    <<t.version>> \o t.nonce \o EncodeVarint(t.system_fee)
    \o EncodeVarint(Wide(t.network_fee)) \o LE(t.valid_until_block, 4)
    \o <<1>> \o script_hash \o <<0>> \o <<0>>
    \o EncodeVarint(Wide(Len(t.script))) \o t.script

\* the attribute count byte left out
serialize_unsigned_NoAttributes(t) ==
    <<t.version>> \o t.nonce \o EncodeVarint(t.system_fee)
    \o EncodeVarint(Wide(t.network_fee)) \o LE(t.valid_until_block, 4)
    \o <<Len(t.signers)>> \o Concat(t.signers)
    \o EncodeVarint(Wide(Len(t.script))) \o t.script

\* Neo3Transaction.serialize_unsigned
serialize_unsigned(t) ==
    <<t.version>> \o t.nonce \o EncodeVarint(t.system_fee)
    \o EncodeVarint(Wide(t.network_fee)) \o LE(t.valid_until_block, 4)
    \o <<Len(t.signers)>> \o Concat(t.signers)
    \o <<Len(t.attributes)>> \o Concat(t.attributes)
    \o EncodeVarint(Wide(Len(t.script))) \o t.script

\* the witness count byte left out
serialize_with_witnesses_NoCount(t) ==
    serialize_unsigned(t) \o Concat(t.witnesses)

\* Neo3Transaction.serialize_with_witnesses
serialize_with_witnesses(t) ==
    serialize_unsigned(t) \o <<Len(t.witnesses)>> \o Concat(t.witnesses)

\* Neo3TransactionBuilder.create_transaction_hex (the serialization part)
SerializeUnsignedTB(t) ==
    <<t.version>> \o t.nonce \o EncodeVarintTB(t.system_fee)
    \o EncodeVarintTB(Wide(t.network_fee)) \o LE(t.valid_until_block, 4)
    \o <<1>> \o script_hash \o <<0>> \o <<0>>
    \o EncodeVarintTB(Wide(Len(t.script))) \o t.script

SerializeUnsigned(v, t) ==
    CASE v = "PD" -> SerializeUnsignedPD(t)
      [] v = "ND" -> serialize_unsigned(t)
      [] v = "TB" -> SerializeUnsignedTB(t)
      [] OTHER -> <<>>

----------------------------------------------------------------------------
(* Signing.  hashlib.sha256 and hmac.new(key, msg, hashlib.sha256) are      *)
(* computed as FIPS 180-4 and RFC 2104 define them, the ECDSA signature as  *)
(* the ecdsa package computes it over NIST P-256.  What sign_digest and     *)
(* secrets.token_bytes take from the random source of the system is an      *)
(* input of the run, held in entropy.                                       *)

\* a 32-bit word is the pair <<high 16 bits, low 16 bits>>
Pow2(n) ==
    <<1, 2, 4, 8, 16, 32, 64, 128, 256, 512, 1024, 2048, 4096, 8192, 16384,
      32768, 65536>>[n + 1]

\* rotation of a word to the right by n bits, 0 < n < 32, n # 16
RotateRight(w, n) ==
    LET v == IF n >= 16 THEN <<w[2], w[1]>> ELSE w
        p == Pow2(n % 16)
        q == Pow2(16 - (n % 16))
    IN <<(v[1] \div p) + (v[2] % p) * q, (v[2] \div p) + (v[1] % p) * q>>

\* shift of a word to the right by n bits, 0 < n < 16
ShiftRight(w, n) ==
    LET p == Pow2(n)
        q == Pow2(16 - n)
    IN <<w[1] \div p, (w[2] \div p) + (w[1] % p) * q>>

\* AndNib[16 * a + b + 1] is a & b for a, b in 0..15
AndNib ==
    <<0, 0, 0, 0, 0, 0, 0, 0, 0, 0, 0, 0, 0, 0, 0, 0,
      0, 1, 0, 1, 0, 1, 0, 1, 0, 1, 0, 1, 0, 1, 0, 1,
      0, 0, 2, 2, 0, 0, 2, 2, 0, 0, 2, 2, 0, 0, 2, 2,
      0, 1, 2, 3, 0, 1, 2, 3, 0, 1, 2, 3, 0, 1, 2, 3,
      0, 0, 0, 0, 4, 4, 4, 4, 0, 0, 0, 0, 4, 4, 4, 4,
      0, 1, 0, 1, 4, 5, 4, 5, 0, 1, 0, 1, 4, 5, 4, 5,
      0, 0, 2, 2, 4, 4, 6, 6, 0, 0, 2, 2, 4, 4, 6, 6,
      0, 1, 2, 3, 4, 5, 6, 7, 0, 1, 2, 3, 4, 5, 6, 7,
      0, 0, 0, 0, 0, 0, 0, 0, 8, 8, 8, 8, 8, 8, 8, 8,
      0, 1, 0, 1, 0, 1, 0, 1, 8, 9, 8, 9, 8, 9, 8, 9,
      0, 0, 2, 2, 0, 0, 2, 2, 8, 8, 10, 10, 8, 8, 10, 10,
      0, 1, 2, 3, 0, 1, 2, 3, 8, 9, 10, 11, 8, 9, 10, 11,
      0, 0, 0, 0, 4, 4, 4, 4, 8, 8, 8, 8, 12, 12, 12, 12,
      0, 1, 0, 1, 4, 5, 4, 5, 8, 9, 8, 9, 12, 13, 12, 13,
      0, 0, 2, 2, 4, 4, 6, 6, 8, 8, 10, 10, 12, 12, 14, 14,
      0, 1, 2, 3, 4, 5, 6, 7, 8, 9, 10, 11, 12, 13, 14, 15>>

\* a & b on 16-bit values, four bits at a time
And16(a, b) ==
    AndNib[16 * (a % 16) + (b % 16) + 1]
    + 16 * AndNib[16 * ((a \div 16) % 16) + ((b \div 16) % 16) + 1]
    + 256 * AndNib[16 * ((a \div 256) % 16) + ((b \div 256) % 16) + 1]
    + 4096 * AndNib[16 * (a \div 4096) + (b \div 4096) + 1]

\* a ^ b on 16-bit values
Xor16(a, b) == (a + b) - 2 * And16(a, b)

\* x ^ y ^ z
Xor3(x, y, z) ==
    <<Xor16(Xor16(x[1], y[1]), z[1]), Xor16(Xor16(x[2], y[2]), z[2])>>

\* (e & f) ^ (~e & g): the two terms have no bit in common
Ch(e, f, g) ==
    <<And16(e[1], f[1]) + And16(65535 - e[1], g[1]),
      And16(e[2], f[2]) + And16(65535 - e[2], g[2])>>

\* (a & b) ^ (a & c) ^ (b & c), which is (a & b) | (c & (a ^ b))
Maj(a, b, c) ==
    <<And16(a[1], b[1]) + And16(c[1], Xor16(a[1], b[1])),
      And16(a[2], b[2]) + And16(c[2], Xor16(a[2], b[2]))>>

\* x + y modulo 2^32
AddWord(x, y) ==
    LET lo == x[2] + y[2] IN
    <<(x[1] + y[1] + (lo \div 65536)) % 65536, lo % 65536>>

\* w + x + y + z modulo 2^32
AddWord4(w, x, y, z) ==
    LET lo == w[2] + x[2] + y[2] + z[2] IN
    <<(w[1] + x[1] + y[1] + z[1] + (lo \div 65536)) % 65536, lo % 65536>>

\* v + w + x + y + z modulo 2^32
AddWord5(v, w, x, y, z) ==
    LET lo == v[2] + w[2] + x[2] + y[2] + z[2] IN
    <<(v[1] + w[1] + x[1] + y[1] + z[1] + (lo \div 65536)) % 65536,
      lo % 65536>>

BigSigma0(a) == Xor3(RotateRight(a, 2), RotateRight(a, 13), RotateRight(a, 22))
BigSigma1(e) == Xor3(RotateRight(e, 6), RotateRight(e, 11), RotateRight(e, 25))
SmallSigma0(x) == Xor3(RotateRight(x, 7), RotateRight(x, 18), ShiftRight(x, 3))
SmallSigma1(x) == Xor3(RotateRight(x, 17), RotateRight(x, 19), ShiftRight(x, 10))

KWords ==
    <<<<17034, 12184>>, <<28983, 17553>>, <<46528, 64463>>,
      <<59829, 56229>>, <<14678, 49755>>, <<23025, 4593>>,
      <<37439, 33444>>, <<43804, 24277>>, <<55303, 43672>>,
      <<4739, 23297>>, <<9265, 34238>>, <<21772, 32195>>, <<29374, 23924>>,
      <<32990, 45566>>, <<39900, 1703>>, <<49563, 61812>>,
      <<58523, 27073>>, <<61374, 18310>>, <<4033, 40390>>, <<9228, 41420>>,
      <<11753, 11375>>, <<19060, 33962>>, <<23728, 43484>>,
      <<30457, 35034>>, <<38974, 20818>>, <<43057, 50797>>,
      <<45059, 10184>>, <<48985, 32711>>, <<50912, 3059>>,
      <<54695, 37191>>, <<1738, 25425>>, <<5161, 10599>>, <<10167, 2693>>,
      <<11803, 8504>>, <<19756, 28156>>, <<21304, 3347>>, <<25866, 29524>>,
      <<30314, 2747>>, <<33218, 51502>>, <<37490, 11397>>,
      <<41663, 59553>>, <<43034, 26187>>, <<49739, 35696>>,
      <<51052, 20899>>, <<53650, 59417>>, <<54937, 1572>>,
      <<62478, 13701>>, <<4202, 41072>>, <<6564, 49430>>, <<7735, 27656>>,
      <<10056, 30540>>, <<13488, 48309>>, <<14620, 3251>>,
      <<20184, 43594>>, <<23452, 51791>>, <<26670, 28659>>,
      <<29839, 33518>>, <<30885, 25455>>, <<33992, 30740>>, <<36039, 520>>,
      <<37054, 65530>>, <<42064, 27883>>, <<48889, 41975>>,
      <<50801, 30962>>>>

HInit ==
    <<<<27145, 58983>>, <<47975, 44677>>, <<15470, 62322>>,
      <<42319, 62778>>, <<20750, 21119>>, <<39685, 26764>>,
      <<8067, 55723>>, <<23520, 52505>>>>

\* the message with the bit 1, zero bytes and its length in bits (8 bytes,
\* big-endian) appended: a multiple of 64 bytes
Sha256Padded(m) ==
    LET n == Len(m)
        z == (119 - (n % 64)) % 64
        bits == n * 8
    IN m \o <<128>> \o Zeros(z) \o Zeros(4)
       \o <<bits \div 16777216, (bits \div 65536) % 256,
            (bits \div 256) % 256, bits % 256>>

\* the 16 big-endian words of block b (counted from 0)
BlockWords(p, b) ==
    [i \in 1..16 |->
        <<p[64 * b + 4 * i - 3] * 256 + p[64 * b + 4 * i - 2],
          p[64 * b + 4 * i - 1] * 256 + p[64 * b + 4 * i]>>]

RECURSIVE Schedule(_, _)
\* the message schedule w extended by k more words
Schedule(w, k) ==
    IF Len(w) < 16 \/ k < 1 THEN w
    ELSE IF k = 1
    THEN LET t == Len(w) + 1 IN
         Append(w, AddWord4(SmallSigma1(w[t - 2]), w[t - 7],
                            SmallSigma0(w[t - 15]), w[t - 16]))
    ELSE Schedule(Schedule(w, k \div 2), k - (k \div 2))

\* one round of the compression on the working variables s = a..h
Round(s, w, t) ==
    LET t1 == AddWord5(s[8], BigSigma1(s[5]), Ch(s[5], s[6], s[7]),
                       KWords[t], w[t])
        t2 == AddWord(BigSigma0(s[1]), Maj(s[1], s[2], s[3]))
    IN <<AddWord(t1, t2), s[1], s[2], s[3], AddWord(s[4], t1), s[5], s[6],
         s[7]>>

RECURSIVE Rounds(_, _, _, _)
\* the rounds lo..hi
Rounds(s, w, lo, hi) ==
    IF Len(s) # 8 \/ lo > hi THEN s
    ELSE IF lo = hi THEN Round(s, w, lo)
    ELSE LET mid == (lo + hi) \div 2 IN
         Rounds(Rounds(s, w, lo, mid), w, mid + 1, hi)

\* h + s on the eight words
AddState(h, s) ==
    IF Len(s) # 8 THEN h
    ELSE <<AddWord(h[1], s[1]), AddWord(h[2], s[2]), AddWord(h[3], s[3]),
           AddWord(h[4], s[4]), AddWord(h[5], s[5]), AddWord(h[6], s[6]),
           AddWord(h[7], s[7]), AddWord(h[8], s[8])>>

\* the hash value h after the 64 rounds over the message schedule w
CompressWith(h, w) ==
    IF Len(w) # 64 THEN h ELSE AddState(h, Rounds(h, w, 1, 64))

\* the hash value h after block b (counted from 0) of the padded message p
CompressBlock(h, p, b) == CompressWith(h, Schedule(BlockWords(p, b), 48))

RECURSIVE Compress(_, _, _, _)
\* the hash value after the blocks lo..hi of the padded message
Compress(h, p, lo, hi) ==
    IF Len(h) # 8 \/ lo > hi THEN h
    ELSE IF lo = hi THEN CompressBlock(h, p, lo)
    ELSE LET mid == (lo + hi) \div 2 IN
         Compress(Compress(h, p, lo, mid), p, mid + 1, hi)

\* the eight words of the hash value as 32 bytes, big-endian
WordsToBytes(h) ==
    IF Len(h) # 8 THEN <<>>
    ELSE [i \in 1..32 |->
             IF (i - 1) % 4 = 0 THEN h[(i + 3) \div 4][1] \div 256
             ELSE IF (i - 1) % 4 = 1 THEN h[(i + 3) \div 4][1] % 256
             ELSE IF (i - 1) % 4 = 2 THEN h[(i + 3) \div 4][2] \div 256
             ELSE h[(i + 3) \div 4][2] % 256]

\* the hash value of the padded message p
Sha256Words(p) == Compress(HInit, p, 0, (Len(p) \div 64) - 1)

\* hashlib.sha256(m).digest()
Sha256(m) == WordsToBytes(Sha256Words(Sha256Padded(m)))

\* a ^ b on bytes
XorByte(a, b) == Xor16(a, b)

\* the key of hmac.new as one block of 64 bytes, each byte xor-ed with c
HmacPad(key, c) ==
    [i \in 1..64 |-> XorByte(IF i <= Len(key) THEN key[i] ELSE 0, c)]

\* HMAC for a key of at most one block
HmacWithKey(key, m) ==
    Sha256(HmacPad(key, 92) \o Sha256(HmacPad(key, 54) \o m))

\* hmac.new(key, m, hashlib.sha256).digest(): a key longer than a block is
\* hashed first
HmacSha256(key, m) ==
    IF Len(key) > 64 THEN HmacWithKey(Sha256(key), m)
    ELSE HmacWithKey(key, m)

\* signature padded with zero bytes or cut to 64 bytes
PadTo64(signature) ==
    IF Len(signature) < 64
    THEN signature \o Zeros(64 - Len(signature))
    ELSE SubSeq(signature, 1, 64)

\* simple_ecdsa_sign of production_deploy.py
simple_ecdsa_sign(key, message_hash) ==
    PadTo64(HmacSha256(key, message_hash))

\* the order n of the base point of NIST P-256 (SECP256R1), as 32 bytes
OrderN ==
    <<255, 255, 255, 255, 0, 0, 0, 0, 255, 255, 255, 255, 255, 255, 255, 255,
      188, 230, 250, 173, 167, 23, 158, 132, 243, 185, 202, 194, 252, 99, 37,
      81>>

\* 2^256 - n, as 32 bytes
OrderComplement ==
    <<0, 0, 0, 0, 255, 255, 255, 255, 0, 0, 0, 0, 0, 0, 0, 0,
      67, 25, 5, 82, 88, 232, 97, 123, 12, 70, 53, 61, 3, 156, 218, 175>>

\* the x coordinate of k * G on NIST P-256 for the nonces k = 1, 2, 3, 4,
\* as 32 bytes each; the first is the x coordinate of the base point G
NonceX ==
    << <<107, 23, 209, 242, 225, 44, 66, 71, 248, 188, 230, 229, 99, 164, 64,
         242, 119, 3, 125, 129, 45, 235, 51, 160, 244, 161, 57, 69, 216, 152,
         194, 150>>,
       <<124, 242, 123, 24, 141, 3, 79, 126, 138, 82, 56, 3, 4, 181, 26, 195,
         192, 137, 105, 226, 119, 242, 27, 53, 166, 11, 72, 252, 71, 102, 153,
         120>>,
       <<94, 203, 228, 209, 166, 51, 10, 68, 200, 247, 239, 149, 29, 75, 241,
         101, 230, 198, 183, 33, 239, 173, 169, 133, 251, 65, 102, 27, 198,
         231, 253, 108>>,
       <<226, 83, 74, 53, 50, 208, 143, 187, 160, 45, 222, 101, 158, 230, 43,
         208, 3, 31, 226, 219, 120, 85, 150, 239, 80, 147, 2, 68, 107, 3, 8,
         82>> >>

\* the prime p of the field of NIST P-256, as 32 bytes
FieldP ==
    <<255, 255, 255, 255, 0, 0, 0, 1, 0, 0, 0, 0, 0, 0, 0, 0, 0, 0, 0, 0,
      255, 255, 255, 255, 255, 255, 255, 255, 255, 255, 255, 255>>

\* 2^256 - p, as 32 bytes
FieldComplement ==
    <<0, 0, 0, 0, 255, 255, 255, 254, 255, 255, 255, 255, 255, 255, 255,
      255, 255, 255, 255, 255, 0, 0, 0, 0, 0, 0, 0, 0, 0, 0, 0, 1>>

\* the y coordinate of the base point G, as 32 bytes
BaseY ==
    <<79, 227, 66, 226, 254, 26, 127, 155, 142, 231, 235, 74, 124, 15, 158,
      22, 43, 206, 51, 87, 107, 49, 94, 206, 203, 182, 64, 104, 55, 191, 81,
      245>>

\* digit i of a number held least byte first, 0 past its length
DigitAt(a, i) == IF i <= Len(a) THEN a[i] ELSE 0

\* digits lo..hi of a + m * q + c * 256^(lo - 1) and the carry out of digit
\* hi, for numbers a and m held least byte first and 0 <= q, c
RECURSIVE AddMul(_, _, _, _, _, _)
AddMul(a, m, q, c, lo, hi) ==
    IF c < 0 \/ lo > hi THEN <<<<>>, c>>
    ELSE IF lo = hi
    THEN LET v == DigitAt(a, lo) + DigitAt(m, lo) * q + c
         IN <<<<v % 256>>, v \div 256>>
    ELSE LET mid == (lo + hi) \div 2
             low == AddMul(a, m, q, c, lo, mid)
             high == AddMul(a, m, q, low[2], mid + 1, hi)
         IN <<low[1] \o high[1], high[2]>>

\* a modulus m of 32 bytes with c = 2^256 - m, both held least byte first
Modulus(m, c) == [m |-> Reverse(m), c |-> Reverse(c)]

\* arithmetic modulo the order n and modulo the prime p
OrderMod == Modulus(OrderN, OrderComplement)
FieldMod == Modulus(FieldP, FieldComplement)

\* the numbers 0 and 1 as 32 bytes, least byte first
ZeroNumber == Zeros(32)
OneNumber == <<1>> \o Zeros(31)

\* lo + hi * 2^256 modulo f.m, below 2^256: 2^256 is f.c modulo f.m
RECURSIVE FoldMod(_, _, _)
FoldMod(lo, hi, f) ==
    IF hi = 0 THEN lo
    ELSE LET r == AddMul(lo, f.c, hi, 0, 1, 32)
         IN FoldMod(r[1], r[2], f)

\* x mod f.m for x of 32 bytes: x - f.m when adding f.c carries out
ReduceMod(x, f) ==
    IF Len(x) # 32 THEN x
    ELSE LET r == AddMul(x, f.c, 1, 0, 1, 32)
         IN IF r[2] = 0 THEN x ELSE r[1]

\* x + y modulo f.m for x and y of 32 bytes
AddMod(x, y, f) ==
    IF Len(x) # 32 \/ Len(y) # 32 THEN x
    ELSE LET sum == AddMul(x, y, 1, 0, 1, 32)
         IN ReduceMod(FoldMod(sum[1], sum[2], f), f)

\* x - y modulo f.m for x and y below f.m: x + (f.m - y), where f.m - y
\* is the low 32 bytes of (2^256 - 1 - y) + f.m + 1
SubMod(x, y, f) ==
    IF Len(y) # 32 THEN x
    ELSE AddMod(x, AddMul([i \in 1..32 |-> 255 - y[i]], f.m, 1, 1, 1, 32)[1],
                f)

\* acc * 256 + b * d modulo f.m, below 2^256
HornerStep(acc, b, d, f) ==
    LET r == AddMul(<<0>> \o acc, d, b, 0, 1, 33)
    IN FoldMod(SubSeq(r[1], 1, 32), r[1][33] + 256 * r[2], f)

\* acc * 256^(hi - lo + 1) + x[lo..hi] * d modulo f.m, for the digits
\* lo..hi of x, held least byte first
RECURSIVE MulDigits(_, _, _, _, _, _)
MulDigits(x, d, f, lo, hi, acc) ==
    IF Len(acc) # 32 \/ lo > hi THEN acc
    ELSE IF lo = hi THEN HornerStep(acc, x[lo], d, f)
    ELSE LET mid == (lo + hi) \div 2
         IN MulDigits(x, d, f, lo, mid, MulDigits(x, d, f, mid + 1, hi, acc))

\* x * y modulo f.m for x and y of 32 bytes
MulMod(x, y, f) ==
    IF Len(x) # 32 \/ Len(y) # 32 THEN x
    ELSE ReduceMod(MulDigits(x, y, f, 1, 32, ZeroNumber), f)

\* bit j of a number of 32 bytes held least byte first; bit 0 is the lowest
BitOf(e, j) == (e[j \div 8 + 1] \div 2 ^ (j % 8)) % 2

\* acc ^ (2 ^ (hi - lo + 1)) * x ^ (bits lo..hi of e) modulo f.m
RECURSIVE PowBits(_, _, _, _, _, _)
PowBits(x, e, f, lo, hi, acc) ==
    IF Len(acc) # 32 \/ lo > hi THEN acc
    ELSE IF lo = hi
    THEN LET sq == MulMod(acc, acc, f)
         IN IF BitOf(e, lo) = 1 THEN MulMod(sq, x, f) ELSE sq
    ELSE LET mid == (lo + hi) \div 2
         IN PowBits(x, e, f, lo, mid, PowBits(x, e, f, mid + 1, hi, acc))

\* inverse_mod(x, f.m) for the prime f.m: x ^ (f.m - 2), where f.m ends in
\* a byte above 1
InverseMod(x, f) ==
    PowBits(x, [f.m EXCEPT ![1] = @ - 2], f, 0, 255, OneNumber)

\* the base point G and the point at infinity, as Jacobian coordinates
\* <<X, Y, Z>> of the affine point (X / Z^2, Y / Z^3)
BasePoint == <<Reverse(NonceX[1]), Reverse(BaseY), OneNumber>>
Infinity == <<OneNumber, OneNumber, ZeroNumber>>

\* the registers a point formula works in: the point, G and five more
Registers(P) ==
    [X |-> P[1], Y |-> P[2], Z |-> P[3], GX |-> BasePoint[1],
     GY |-> BasePoint[2], a |-> ZeroNumber, b |-> ZeroNumber,
     c |-> ZeroNumber, d |-> ZeroNumber, e |-> ZeroNumber]

\* one step <<operation, target, left, right>> of a formula, modulo p
Execute(step, regs) ==
    LET l == regs[step[3]]
        r == regs[step[4]]
    IN [regs EXCEPT ![step[2]] =
            CASE step[1] = "mul" -> MulMod(l, r, FieldMod)
              [] step[1] = "add" -> AddMod(l, r, FieldMod)
              [] OTHER -> SubMod(l, r, FieldMod)]

\* the steps lo..hi of a formula, in order
RECURSIVE RunSteps(_, _, _, _)
RunSteps(steps, lo, hi, regs) ==
    IF Len(regs.X) # 32 \/ lo > hi THEN regs
    ELSE IF lo = hi THEN Execute(steps[lo], regs)
    ELSE LET mid == (lo + hi) \div 2
         IN RunSteps(steps, mid + 1, hi, RunSteps(steps, lo, mid, regs))

\* 2 * P on the curve y^2 = x^3 - 3x + b: with delta = Z^2, gamma = Y^2,
\* beta = X * gamma and alpha = 3 * (X - delta) * (X + delta),
\* Z3 = (Y + Z)^2 - gamma - delta, X3 = alpha^2 - 8 * beta and
\* Y3 = alpha * (4 * beta - X3) - 8 * gamma^2
DoubleSteps ==
    << <<"mul", "a", "Z", "Z">>, <<"mul", "b", "Y", "Y">>,
       <<"mul", "c", "X", "b">>, <<"sub", "d", "X", "a">>,
       <<"add", "e", "X", "a">>, <<"mul", "d", "d", "e">>,
       <<"add", "e", "d", "d">>, <<"add", "d", "e", "d">>,
       <<"add", "e", "Y", "Z">>, <<"mul", "Z", "e", "e">>,
       <<"sub", "Z", "Z", "b">>, <<"sub", "Z", "Z", "a">>,
       <<"add", "c", "c", "c">>, <<"add", "c", "c", "c">>,
       <<"add", "e", "c", "c">>, <<"mul", "X", "d", "d">>,
       <<"sub", "X", "X", "e">>, <<"sub", "a", "c", "X">>,
       <<"mul", "a", "d", "a">>, <<"mul", "b", "b", "b">>,
       <<"add", "b", "b", "b">>, <<"add", "b", "b", "b">>,
       <<"add", "b", "b", "b">>, <<"sub", "Y", "a", "b">> >>

\* P + G for P that is neither G, -G nor the point at infinity: with
\* h = GX * Z^2 - X, r = GY * Z^3 - Y and v = X * h^2,
\* X3 = r^2 - h^3 - 2 * v, Y3 = r * (v - X3) - Y * h^3 and Z3 = Z * h;
\* the registers a and b hold h and r at the end
AddBaseSteps ==
    << <<"mul", "c", "Z", "Z">>, <<"mul", "a", "GX", "c">>,
       <<"mul", "c", "Z", "c">>, <<"mul", "b", "GY", "c">>,
       <<"sub", "a", "a", "X">>, <<"sub", "b", "b", "Y">>,
       <<"mul", "c", "a", "a">>, <<"mul", "d", "a", "c">>,
       <<"mul", "c", "X", "c">>, <<"mul", "X", "b", "b">>,
       <<"sub", "X", "X", "d">>, <<"sub", "X", "X", "c">>,
       <<"sub", "X", "X", "c">>, <<"sub", "c", "c", "X">>,
       <<"mul", "c", "b", "c">>, <<"mul", "d", "Y", "d">>,
       <<"sub", "Y", "c", "d">>, <<"mul", "Z", "Z", "a">> >>

\* the point the registers hold
PointOf(regs) == <<regs.X, regs.Y, regs.Z>>

\* 2 * P
PointDouble(P) ==
    IF Len(P) # 3 \/ P[3] = ZeroNumber THEN P
    ELSE PointOf(RunSteps(DoubleSteps, 1, Len(DoubleSteps), Registers(P)))

\* P + G
PointAddBase(P) ==
    IF Len(P) # 3 THEN P
    ELSE IF P[3] = ZeroNumber THEN BasePoint
    ELSE LET regs == RunSteps(AddBaseSteps, 1, Len(AddBaseSteps),
                              Registers(P))
         IN IF regs.a # ZeroNumber THEN PointOf(regs)
            ELSE IF regs.b = ZeroNumber THEN PointDouble(BasePoint)
            ELSE Infinity

\* acc * 2 ^ (hi - lo + 1) + (bits lo..hi of k) * G
RECURSIVE MulBase(_, _, _, _)
MulBase(k, lo, hi, acc) ==
    IF Len(acc) # 3 \/ lo > hi THEN acc
    ELSE IF lo = hi
    THEN LET d == PointDouble(acc)
         IN IF BitOf(k, lo) = 1 THEN PointAddBase(d) ELSE d
    ELSE LET mid == (lo + hi) \div 2
         IN MulBase(k, lo, mid, MulBase(k, mid + 1, hi, acc))

\* the affine x coordinate of P, least byte first
AffineX(P) ==
    MulMod(P[1], InverseMod(MulMod(P[3], P[3], FieldMod), FieldMod), FieldMod)

\* the number of a nonce of 32 bytes below 256, and 0 for any other nonce
SmallNonce(k) ==
    IF Len(k) = 32 /\ SubSeq(k, 1, 31) = Zeros(31) THEN k[32] ELSE 0

\* the x coordinate of k * G, least byte first, for a nonce k of 32 bytes:
\* read from NonceX for the nonces it holds, computed for the others
NonceBaseX(k) ==
    IF SmallNonce(k) \in 1..Len(NonceX) THEN Reverse(NonceX[SmallNonce(k)])
    ELSE AffineX(MulBase(Reverse(k), 0, 255, Infinity))

\* quotient digits and remainder of (r * 256^(hi - lo + 1) + num[lo..hi])
\* by k, for a number num held most significant byte first
RECURSIVE DivModSmall(_, _, _, _, _)
DivModSmall(num, k, lo, hi, r) ==
    IF r < 0 \/ lo > hi THEN <<<<>>, r>>
    ELSE IF lo = hi
    THEN LET v == r * 256 + num[lo]
         IN <<<<v \div k>>, v % k>>
    ELSE LET mid == (lo + hi) \div 2
             high == DivModSmall(num, k, lo, mid, r)
             low == DivModSmall(num, k, mid + 1, hi, high[2])
         IN <<high[1] \o low[1], low[2]>>

\* w / k and its remainder for w of 33 bytes, least byte first, below
\* 256^32 * k; the quotient as 32 bytes, most significant first
QuotientBy(w, k) ==
    IF Len(w) # 33 THEN <<w, 0>>
    ELSE LET qr == DivModSmall(Reverse(w), k, 1, 33, 0)
         IN <<SubSeq(qr[1], 2, 33), qr[2]>>

\* (v + t * n) / k and its remainder
ScaledBy(v, t, k) ==
    QuotientBy(AddMul(v, OrderMod.m, t, 0, 1, 33)[1], k)

\* inverse_mod(k, n) * v modulo n, as 32 bytes, most significant first.
\* For a nonce below 256 it is the one of v, v + n, .., v + (k - 1) * n
\* that k divides, divided by k
InverseTimes(k, v) ==
    IF Len(v) # 32 THEN v
    ELSE IF SmallNonce(k) = 0
    THEN Reverse(MulMod(InverseMod(Reverse(k), OrderMod), v, OrderMod))
    ELSE LET t == CHOOSE t \in 0..(SmallNonce(k) - 1) :
                      ScaledBy(v, t, SmallNonce(k))[2] = 0
         IN ScaledBy(v, t, SmallNonce(k))[1]

\* Private_key.sign of the ecdsa package: r = (k * G).x mod n and
\* s = inverse_mod(k, n) * (hash + secret * r) mod n, with the signature
\* r and s as 32 bytes each (sigencode_string); secret, hash and the nonce
\* k are numbers of 32 bytes, most significant first
sign_number(secret, hash, k) ==
    LET r == ReduceMod(NonceBaseX(k), OrderMod)
        rd == MulMod(r, Reverse(secret), OrderMod)
    IN Reverse(r) \o InverseTimes(k, AddMod(Reverse(hash), rd, OrderMod))

\* SigningKey.sign_digest: the ECDSA signature over P-256 of the digest
\* with the key, for the nonce k the call draws from the random source
EcdsaSign(key, digest, k) == sign_number(key, digest, k)

\* secrets.token_bytes(n): the next n bytes of the random source
token_bytes(source, n) == SubSeq(source, 1, n)

\* what the random source of the system holds when a script signs: the
\* bytes token_bytes(64) returns, the nonce sign_digest draws (a number
\* 1..n-1 of 32 bytes), nothing for a script that draws nothing.  The
\* source can hold any bytes; the runs followed take the samples 1..count
RandomBytes(seed) == [i \in 1..64 |-> (seed * i) % 256]
RandomNonce(seed) == Zeros(31) \o <<seed>>
Entropies(v, count) ==
    CASE v = "ND" -> {RandomNonce(seed) : seed \in 1..count}
      [] v = "TB" -> {RandomBytes(seed) : seed \in 1..count}
      [] OTHER -> {<<>>}

\* the signature each script produces for a digest, given what the random
\* source holds
SignatureOf(v, key, digest, source) ==
    CASE v = "PD" -> simple_ecdsa_sign(key, digest)
      [] v = "ND" -> EcdsaSign(key, digest, source)
      [] OTHER -> token_bytes(source, 64)

\* the witness bytes built in sign_and_send, create_witness, sign_transaction
WitnessBytes(signature) ==
    LET inv_script == <<12, 64>> \o signature
        ver_script == <<12, 20>> \o script_hash \o <<65, 158, 208, 220, 58>>
    IN <<Len(inv_script)>> \o inv_script \o <<Len(ver_script)>> \o ver_script

----------------------------------------------------------------------------
(* Base58 and WIF.  A text is the sequence of its ASCII codes; a function    *)
(* that may raise returns a record: err is "none" and val the value, or err *)
(* names the exception.                                                      *)

\* alphabet of base58_decode
Base58Alphabet ==
    <<49, 50, 51, 52, 53, 54, 55, 56, 57, 65, 66, 67, 68,
      69, 70, 71, 72, 74, 75, 76, 77, 78, 80, 81, 82, 83,
      84, 85, 86, 87, 88, 89, 90, 97, 98, 99, 100, 101, 102,
      103, 104, 105, 106, 107, 109, 110, 111, 112, 113, 114, 115, 116,
      117, 118, 119, 120, 121, 122>>

MASTER_WIF ==
    <<75, 122, 106, 97, 113, 77, 118, 113, 122, 70, 49, 117, 117,
      112, 54, 75, 114, 84, 75, 82, 120, 84, 103, 106, 99, 88,
      69, 55, 80, 98, 75, 76, 82, 72, 56, 52, 101, 54, 99,
      107, 121, 88, 68, 116, 51, 102, 117, 55, 97, 102, 85, 98>>

MASTER_ADDRESS ==
    <<78, 84, 109, 72, 106, 119, 105, 97, 100, 113, 52, 103, 51,
      86, 72, 112, 74, 53, 70, 81, 105, 103, 81, 99, 68, 52,
      102, 70, 53, 109, 56, 84, 121, 88>>

\* alphabet.index(char), -1 where it raises ValueError
IndexOf(c) ==
    IF \E i \in 1..58 : Base58Alphabet[i] = c
    THEN (CHOOSE i \in 1..58 : Base58Alphabet[i] = c) - 1
    ELSE -1

InAlphabet(text) == \A i \in DOMAIN text : IndexOf(text[i]) >= 0

RECURSIVE MulAddDigits(_, _, _, _, _)
\* the digits lo..hi of n * m + c and the carry out of them, for the
\* unbounded integer n given by its base-256 digits, least significant first
MulAddDigits(n, m, c, lo, hi) ==
    IF c < 0 \/ lo > hi THEN <<<<>>, c>>
    ELSE IF lo = hi
    THEN LET v == n[lo] * m + c IN <<<<v % 256>>, v \div 256>>
    ELSE LET mid == (lo + hi) \div 2
             low == MulAddDigits(n, m, c, lo, mid)
             high == MulAddDigits(n, m, low[2], mid + 1, hi)
         IN <<low[1] \o high[1], high[2]>>

\* n * m + c for m <= 256 and c < 256, without high zero digits: the carry
\* out of the last digit is below 256
MulAdd(n, m, c) ==
    LET r == MulAddDigits(n, m, c, 1, Len(n)) IN
    IF r[2] = 0 THEN r[1] ELSE Append(r[1], r[2])

RECURSIVE Base58Value(_, _, _, _)
\* the integer decoded from the characters lo..hi of the text, acc being
\* the value of the characters before lo
Base58Value(text, lo, hi, acc) ==
    IF Len(acc) < 0 \/ lo > hi THEN acc
    ELSE IF lo = hi THEN MulAdd(acc, 58, IndexOf(text[lo]))
    ELSE LET mid == (lo + hi) \div 2 IN
         Base58Value(text, mid + 1, hi, Base58Value(text, lo, mid, acc))

\* bytes.fromhex of hex(decoded)[2:] padded to an even length: big-endian,
\* and the one byte 00 for zero
IntToBytes(n) == IF n = <<>> THEN <<0>> ELSE Reverse(n)

RECURSIVE LeadingCount(_, _, _)
\* how many elements equal to x the sequence starts with, from position i
LeadingCount(s, x, i) ==
    IF i > Len(s) \/ s[i] # x THEN 0 ELSE 1 + LeadingCount(s, x, i + 1)

\* base58_decode of production_deploy.py, rpc_deploy_complete.py and
\* deploy_transaction.py
base58_decode(s) ==
    IF ~InAlphabet(s) THEN Raised("ValueError")
    ELSE Ok(Zeros(LeadingCount(s, 49, 1))
            \o IntToBytes(Base58Value(s, 1, Len(s), <<>>)))

\* decoded[a:b] with Python's clamping, a and b counted from 0
Slice(d, a, b) ==
    LET hi == IF b < Len(d) THEN b ELSE Len(d) IN
    IF a >= hi THEN <<>> ELSE SubSeq(d, a + 1, hi)

\* wif_to_private_key of production_deploy.py: any exception is caught and
\* the first 32 bytes of sha256 of the text are returned
wif_to_private_key_PD(wif) ==
    LET d == base58_decode(wif) IN
    IF d.err = "none" /\ Len(d.val) \in {38, 37} /\ d.val[1] = 128
    THEN Ok(Slice(d.val, 1, 33))
    ELSE Ok(Slice(Sha256(wif), 0, 32))

\* wif_to_private_key of rpc_deploy_complete.py
wif_to_private_key_ND(wif) ==
    LET d == base58_decode(wif) IN
    IF d.err # "none" THEN d
    ELSE IF Len(d.val) = 37 /\ d.val[1] = 128 /\ d.val[Len(d.val) - 3] = 1
         THEN Ok(Slice(d.val, 1, 33))
    ELSE IF Len(d.val) = 33 /\ d.val[1] = 128 THEN Ok(Slice(d.val, 1, 33))
    ELSE Raised("ValueError")

\* wif_to_private_key of deploy_transaction.py
wif_to_private_key_TB(wif) ==
    LET d == base58_decode(wif) IN
    IF d.err # "none" THEN d
    ELSE IF Len(d.val) = 37 /\ d.val[1] = 128 /\ d.val[Len(d.val) - 4] = 1
         THEN Ok(Slice(d.val, 1, 33))
    ELSE IF Len(d.val) = 33 /\ d.val[1] = 128 THEN Ok(Slice(d.val, 1, 33))
    ELSE Raised("ValueError")

\* NeoDeployment.wif_to_private_key of deploy_contract_direct.py: its own
\* decoding loop, no padding for leading characters, no validation
wif_to_private_key_DD(wif) ==
    IF ~InAlphabet(wif) THEN Raised("ValueError")
    ELSE LET data == IntToBytes(Base58Value(wif, 1, Len(wif), <<>>))
             key == Slice(data, 1, Len(data) - 4)
         IN Ok(IF Len(key) = 33 THEN Slice(key, 0, 32) ELSE key)

\* DD: scripts/deploy_contract_direct.py NeoDeployment
WifImpls == {"PD", "ND", "TB", "DD"}

wif_to_private_key(i, wif) ==
    CASE i = "PD" -> wif_to_private_key_PD(wif)
      [] i = "ND" -> wif_to_private_key_ND(wif)
      [] i = "TB" -> wif_to_private_key_TB(wif)
      [] OTHER -> wif_to_private_key_DD(wif)

\* address_to_script_hash: decoded[1:21]
address_to_script_hash(address) ==
    LET d == base58_decode(address) IN
    IF d.err # "none" THEN d ELSE Ok(Slice(d.val, 1, 21))

RECURSIVE DivMod58(_, _, _, _)
\* divmod(num, 58) on the digits lo..hi of num, given by its base-256
\* digits, most significant first, r being the remainder of the digits
\* before lo: <<quotient digits, remainder>>
DivMod58(num, lo, hi, r) ==
    IF r < 0 \/ lo > hi THEN <<<<>>, r>>
    ELSE IF lo = hi
    THEN LET v == r * 256 + num[lo] IN <<<<v \div 58>>, v % 58>>
    ELSE LET mid == (lo + hi) \div 2
             high == DivMod58(num, lo, mid, r)
             low == DivMod58(num, mid + 1, hi, high[2])
         IN <<high[1] \o low[1], low[2]>>

\* the digits without their leading zeros
StripZeros(d) == Slice(d, LeadingCount(d, 0, 1), Len(d))

\* one pass of the while loop of script_hash_to_address on <<num, encoded>>;
\* the loop has ended when num is 0
Base58Step(st) ==
    IF st[1] = <<>> THEN st
    ELSE LET qr == DivMod58(st[1], 1, Len(st[1]), 0) IN
         <<StripZeros(qr[1]), <<Base58Alphabet[qr[2] + 1]>> \o st[2]>>

RECURSIVE Base58Steps(_, _)
\* k passes of the loop
Base58Steps(st, k) ==
    IF Len(st) # 2 \/ k < 1 THEN st
    ELSE IF k = 1 THEN Base58Step(st)
    ELSE Base58Steps(Base58Steps(st, k \div 2), k - (k \div 2))

\* the while loop of script_hash_to_address: the characters of num.  A
\* number of n bytes has at most 2 * n characters (58 * 58 > 256)
Base58Digits(num) == Base58Steps(<<num, <<>>>>, 2 * Len(num))[2]

\* the Base58 encoding loop of NeoDeployment.script_hash_to_address: one '1'
\* for each leading zero byte, then the digits
Base58Encode(data) ==
    [i \in 1..LeadingCount(data, 0, 1) |-> 49]
    \o Base58Digits(StripZeros(data))

\* hashlib.sha256(hashlib.sha256(data).digest()).digest()[:4]
Checksum(data) == Slice(Sha256(Sha256(data)), 0, 4)

\* NeoDeployment.script_hash_to_address
script_hash_to_address(h) ==
    LET data == <<73>> \o h IN Base58Encode(data \o Checksum(data))

----------------------------------------------------------------------------
(* RPC *)

RpcOutcomes == {"transport", "rpcerror", "ok"}

\* rpc_call: the node's result, or None for a transport failure or an error
\* object
rpc_call(outcome, value, none) == IF outcome = "ok" THEN value ELSE none

\* what rpc_call prints when it returns None
RpcDiagnostic(outcome) ==
    IF outcome = "rpcerror" THEN "RpcError" ELSE "TransportError"

GasHash == "0xd2a4cff31913016155e38e474a2c06d08be276cf"
NeoHash == "0xef4073a0f2b305a38ec4050e4d3d28bc40ea63f5"

\* the "balance" list of a getnep17balances result
BalanceList(g) ==
    IF g = 0 THEN <<[assethash |-> NeoHash, amount |-> 1]>>
    ELSE <<[assethash |-> NeoHash, amount |-> 1],
           [assethash |-> GasHash, amount |-> g]>>

RECURSIVE GasBalance(_, _)
\* the loop of validate_environment over the balance list, in datoshi
GasBalance(list, acc) ==
    IF list = <<>> THEN acc
    ELSE GasBalance(Tail(list),
                    IF Head(list).assethash = GasHash
                    THEN Head(list).amount ELSE acc)

\* gas_balance < 15, with gas_balance = amount / 100_000_000
Insufficient(amount) == amount < MinGas * DatoshiPerGas

----------------------------------------------------------------------------
(* Order of the steps *)

\* where each script goes once its dry run has been evaluated
AfterEstimate(v) ==
    IF v = "TB" THEN "build_height" ELSE IF v = "SR" THEN "done" ELSE "build_tx"

\* the position reached when the step at p completes
StepAfter(v, p) ==
    CASE p = "validate_height" ->
             IF v \in {"PD", "SR", "WR"} THEN "validate_balance"
             ELSE "build_script"
      [] p = "validate_balance" -> "build_script"
      [] p = "build_script" ->
             IF v = "PD" THEN "build_height"
             ELSE IF v = "WR" THEN "done" ELSE "estimate"
      [] p = "build_height" -> IF v = "PD" THEN "estimate" ELSE "build_tx"
      [] p = "estimate" -> AfterEstimate(v)
      [] p = "build_tx" -> "sign"
      [] p = "sign" -> "send"
      [] OTHER -> "done"

\* a signing error that is only logged
AfterSign_Continue(outcome) == "send"

\* deploy_contract of rpc_deploy_complete.py: the except branch around
\* create_witness returns None
AfterSign(outcome) == IF outcome = "ok" THEN "send" ELSE "done"

\* a failed submission that is tried again
AfterSend_Retry(ret) == IF ret = "None" THEN "send" ELSE "done"

\* after rpc_call("sendrawtransaction") every pipeline returns
AfterSend(ret) == "done"

\* a hash reported without looking at the returned value
RunResult_Unchecked(ret) == "0xtxhash"

\* the value the run reports for the value sendrawtransaction returned
RunResult(ret) == IF ret # "None" THEN ret ELSE "None"

\* a shorter validity window
ValidUntilBlock_Short(h) == h + 100

\* the window left out
ValidUntilBlock_NoWindow(h) == h

\* current_height + 1000
ValidUntilBlock(h) == h + Window

\* no allowance for the bytes around the script
Overhead_None(v) == 0

\* the bytes added to len(script) before the multiplication by 1000
Overhead(v) ==
    CASE v = "PD" -> OverheadPD [] v = "ND" -> OverheadND [] OTHER -> OverheadTB

\* tx_size * 1000 of build_transaction and estimate_fees
NetworkFee(v, s) == (Len(s) + Overhead(v)) * FeePerByte

\* the state of the orchestrator at a position of the code
Phase(v, p, f) ==
    CASE p \in {"validate_height", "validate_balance", "build_script"} ->
             "Validating"
      [] p = "estimate" -> "ScriptBuilt"
      [] p = "build_height" ->
             IF v = "PD" THEN "ScriptBuilt" ELSE "FeeEstimated"
      [] p = "build_tx" -> "FeeEstimated"
      [] p = "sign" -> "TransactionBuilt"
      [] p = "send" -> "Signed"
      [] OTHER -> IF f # "None" THEN "Failed"
                  ELSE IF v \in Deployers THEN "Submitted" ELSE "Finished"

----------------------------------------------------------------------------
(* Inputs *)

NefGood == NefMagic \o <<1>>
NefBad == <<77, 90, 1, 2, 3>>
\* the contract files on disk: <<nef bytes, manifest text>>
FileInputs == {<<NefGood, ManifestNamed>>, <<NefBad, ManifestNamed>>,
               <<NefGood, ManifestEmptyObject>>, <<NefGood, ManifestBroken>>}
GasAmounts == {0, MinGas * DatoshiPerGas - 1, MinGas * DatoshiPerGas}
GasConsumedValues == {1000, 1000000000}
InvokeStates == {"HALT", "FAULT"}
AdvanceSteps == {1, Window}

\* no answer to the getOwner query yet
NoAnswer == [response |-> "None", state |-> "None", item |-> "none"]

\* no initialization run
InitIdle ==
    /\ init_script = "none"
    /\ already_initialized = FALSE
    /\ env_key = FALSE
    /\ init_gas = 0
    /\ ipc = "done"
    /\ check_seen = NoAnswer
    /\ issued = <<>>
    /\ succeeded = <<>>
    /\ reports = <<>>

\* a WIF text that wif_to_private_key of rpc_deploy_complete.py and of
\* deploy_transaction.py accepts: the version byte and the key, 33 bytes
WifAccepted == Base58Encode(<<128>> \o private_key)

\* the texts of MASTER_WIF a run is followed for: the one the scripts ship
\* and, for the two deployers that reject it, one they accept
MasterWifs(v) ==
    IF v \in {"ND", "TB"} THEN {MASTER_WIF, WifAccepted} ELSE {MASTER_WIF}

\* __init__ of each deployer: wif_to_private_key(MASTER_WIF), which may
\* raise; the scripts that sign nothing convert nothing
Constructed(v, wif) ==
    IF v \in Deployers THEN wif_to_private_key(v, wif) ELSE Ok(<<>>)

\* self.private_key after the constructor; no object and no key when the
\* constructor raised
KeyAfterInit(v, wif) == Constructed(v, wif).val

\* the state after main() constructed the deployer: a ValueError of the
\* constructor ends the run before any call
Init ==
    /\ variant \in Variants
    /\ \E f \in FileInputs : nef = f[1] /\ manifest = f[2]
    /\ master_wif \in MasterWifs(variant)
    /\ self_private_key = KeyAfterInit(variant, master_wif)
    /\ entropy \in Entropies(variant, NumSeeds)
    /\ height = StartHeight
    /\ gas \in GasAmounts
    /\ clock = StartClock
    /\ advances = 0
    /\ ticks = 0
    /\ pc = IF Constructed(variant, master_wif).err = "none"
            THEN "validate_height" ELSE "done"
    /\ rpcLog = <<>>
    /\ block_count = 0
    /\ current_height = 0
    /\ script = <<>>
    /\ system_fee = <<>>
    /\ network_fee = 0
    /\ tx = NoTx
    /\ unsigned_tx = <<>>
    /\ witness = <<>>
    /\ signed_tx = <<>>
    /\ result = "None"
    /\ failure = IF Constructed(variant, master_wif).err = "none"
                 THEN "None" ELSE "InvalidWif"
    /\ sendOutcome = "None"
    /\ invokeState = "None"
    /\ signOutcome = "None"
    /\ reportedGas = -1
    /\ heightAtSend = 0
    /\ signedDigest = <<>>
    /\ fn = "none"
    /\ impl = "none"
    /\ arg = <<>>
    /\ outs = <<>>
    /\ InitIdle

----------------------------------------------------------------------------
(* The node and the clock *)

AdvanceHeight ==
    /\ pc # "done"
    /\ advances < MaxAdvances
    /\ \E n \in AdvanceSteps : height' = height + n
    /\ advances' = advances + 1
    /\ UNCHANGED <<inputVars, applyVars, initVars,
                   gas, clock, ticks, pc, rpcLog, block_count,
                   current_height, buildVars, result, failure, obsVars>>

\* the clock is read only when the transaction is built
Tick ==
    /\ pc \notin {"sign", "send", "done"}
    /\ ticks < MaxTicks
    /\ clock' = clock + 1
    /\ ticks' = ticks + 1
    /\ UNCHANGED <<inputVars, applyVars, initVars,
                   nodeVars, pc, rpcLog, block_count,
                   current_height, buildVars, result, failure, obsVars>>

----------------------------------------------------------------------------
(* Steps of the scripts *)

\* the connectivity check: validate_environment, validate_deployment_environment,
\* validate_deployment_ready, main of deploy_transaction.py, and the height
\* read that opens Neo3Deployer.deploy_contract
GetBlockCountValidate ==
    /\ pc = "validate_height"
    /\ \E o \in RpcOutcomes :
         LET r == rpc_call(o, height, 0) IN
         /\ rpcLog' = Append(rpcLog, "getblockcount")
         /\ IF r = 0
            THEN /\ pc' = "done"
                 /\ failure' = "Unreachable"
                 /\ UNCHANGED <<block_count, current_height>>
            ELSE /\ pc' = StepAfter(variant, pc)
                 /\ block_count' = r
                 /\ current_height' = IF variant = "ND" THEN r
                                      ELSE current_height
                 /\ UNCHANGED failure
    /\ UNCHANGED <<inputVars, applyVars, initVars,
                   envVars, buildVars, result, obsVars>>

\* the balance check of validate_environment and its copies
GetBalance ==
    /\ pc = "validate_balance"
    /\ \E o \in RpcOutcomes :
         LET balance == rpc_call(o, BalanceList(gas), <<>>)
             gas_balance == GasBalance(balance, 0)
         IN
         /\ rpcLog' = Append(rpcLog, "getnep17balances")
         /\ IF o # "ok"
            THEN /\ pc' = "done"
                 /\ failure' = "Unreachable"
                 /\ UNCHANGED reportedGas
            ELSE /\ reportedGas' = gas_balance
                 /\ IF Insufficient(gas_balance)
                    THEN pc' = "done" /\ failure' = "InsufficientFunds"
                    ELSE pc' = StepAfter(variant, pc) /\ UNCHANGED failure
    /\ UNCHANGED <<inputVars, applyVars, initVars,
                   envVars, block_count, current_height, buildVars,
                   result, sendOutcome, invokeState, signOutcome,
                   heightAtSend, signedDigest>>

\* create_deploy_script, create_deployment_script,
\* create_deployment_script_hex, prepare_contract_deployment
InputAccepted(v, n, m) ==
    CASE v = "SR" -> StartsWith(n, NefMagic) /\ JsonKind(m) = "named"
      [] v = "WR" -> StartsWith(n, NefMagic) /\ JsonKind(m) # "invalid"
      [] OTHER -> TRUE

BuildScript ==
    /\ pc = "build_script"
    /\ IF InputAccepted(variant, nef, manifest)
       THEN /\ script' = DeployScript(variant, nef, manifest)
            /\ pc' = StepAfter(variant, pc)
            /\ UNCHANGED failure
       ELSE /\ pc' = "done"
            /\ failure' = "InvalidInputFormat"
            /\ UNCHANGED script
    /\ UNCHANGED <<inputVars, applyVars, initVars,
                   envVars, rpcLog, block_count, current_height,
                   system_fee, network_fee, tx, unsigned_tx, witness,
                   signed_tx, result, obsVars>>

\* the height read of build_transaction and create_transaction_hex
GetBlockCountBuild ==
    /\ pc = "build_height"
    /\ \E o \in RpcOutcomes :
         LET r == rpc_call(o, height, 0) IN
         /\ rpcLog' = Append(rpcLog, "getblockcount")
         /\ IF r = 0
            THEN /\ pc' = "done"
                 /\ failure' = "Unreachable"
                 /\ UNCHANGED current_height
            ELSE /\ pc' = StepAfter(variant, pc)
                 /\ current_height' = r
                 /\ UNCHANGED failure
    /\ UNCHANGED <<inputVars, applyVars, initVars,
                   envVars, block_count, buildVars, result,
                   obsVars>>

\* system_fee chosen from the invokescript result
SystemFee(o, st, g) ==
    IF o = "ok" /\ st = "HALT" THEN Wide(g) ELSE FallbackSystemFee

\* the dry run: build_transaction, estimate_fees, test_deployment_script
EstimateFees ==
    /\ pc = "estimate"
    /\ \E o \in RpcOutcomes, st \in InvokeStates, g \in GasConsumedValues :
         /\ rpcLog' = Append(rpcLog, "invokescript")
         /\ invokeState' = IF o = "ok" THEN st ELSE o
         /\ IF variant = "SR"
            THEN /\ IF o = "ok" /\ st = "HALT"
                    THEN pc' = StepAfter(variant, pc) /\ UNCHANGED failure
                    ELSE /\ pc' = "done"
                         /\ failure' = IF o = "ok" THEN "ScriptExecutionFault"
                                       ELSE "Unreachable"
                 /\ UNCHANGED <<system_fee, network_fee>>
            ELSE /\ system_fee' = SystemFee(o, st, g)
                 /\ network_fee' = NetworkFee(variant, script)
                 /\ pc' = StepAfter(variant, pc)
                 /\ UNCHANGED failure
    /\ UNCHANGED <<inputVars, applyVars, initVars,
                   envVars, block_count, current_height, script,
                   tx, unsigned_tx, witness, signed_tx, result, sendOutcome,
                   signOutcome, reportedGas, heightAtSend, signedDigest>>

\* the transaction fields and the unsigned serialization
NewTx(v, now, sf, nf, h, s) ==
    [version |-> 0, nonce |-> LE(now, 4), system_fee |-> sf,
     network_fee |-> nf, valid_until_block |-> ValidUntilBlock(h),
     signers |-> IF v = "ND" THEN << script_hash \o <<0>> >> ELSE <<>>,
     attributes |-> <<>>, script |-> s, witnesses |-> <<>>]

BuildTx ==
    /\ pc = "build_tx"
    /\ tx' = NewTx(variant, clock, system_fee, network_fee, current_height,
                   script)
    /\ unsigned_tx' = SerializeUnsigned(variant, tx')
    /\ pc' = StepAfter(variant, pc)
    /\ UNCHANGED <<inputVars, applyVars, initVars,
                   envVars, rpcLog, block_count, current_height,
                   script, system_fee, network_fee, witness, signed_tx,
                   result, failure, obsVars>>

\* the digest each script hands to its signature function: sign_and_send
\* and create_witness pass sha256 of the unsigned bytes; sign_transaction
\* computes tx_hash and passes nothing to secrets.token_bytes
MessageHash(v, u) == IF v = "TB" THEN <<>> ELSE Sha256(u)

\* a witness count of two in front of the one witness
SignedHex_TwoWitnesses(u, w) == u \o <<2>> \o w

\* unsigned_tx_hex + "01" + witness.hex(), tx_hex + "01" + witness_hex
SignedHex(u, w) == u \o <<1>> \o w

\* how the signing step can end: the calls of create_witness into the
\* ecdsa package can raise, the other scripts compute with bytes only
SignOutcomes(v) == IF v = "ND" THEN {"ok", "error"} ELSE {"ok"}

\* sign_and_send up to the witness, create_witness, sign_transaction; the
\* signature is the one of the key, the digest and what the random source
\* holds
Sign ==
    /\ pc = "sign"
    /\ signedDigest' = MessageHash(variant, unsigned_tx)
    /\ \E o \in SignOutcomes(variant) :
         LET signature == SignatureOf(variant, self_private_key,
                                      signedDigest', entropy)
         IN
         /\ signOutcome' = o
         /\ pc' = AfterSign(o)
         /\ IF o = "ok"
            THEN /\ witness' = WitnessBytes(signature)
                 /\ tx' = IF variant = "ND"
                          THEN [tx EXCEPT !.witnesses = <<witness'>>]
                          ELSE tx
                 /\ signed_tx' = IF variant = "ND" THEN signed_tx
                                 ELSE SignedHex(unsigned_tx, witness')
                 /\ UNCHANGED failure
            ELSE /\ failure' = "SigningError"
                 /\ UNCHANGED <<witness, tx, signed_tx>>
    /\ UNCHANGED <<inputVars, applyVars, initVars,
                   envVars, rpcLog, block_count, current_height,
                   script, system_fee, network_fee, unsigned_tx, result,
                   sendOutcome, invokeState, reportedGas, heightAtSend>>

\* the sendrawtransaction call and the value the run returns
Send ==
    /\ pc = "send"
    /\ \E o \in RpcOutcomes :
         LET ret == rpc_call(o, "0xtxhash", "None") IN
         /\ signed_tx' = IF variant = "ND" THEN serialize_with_witnesses(tx)
                         ELSE signed_tx
         /\ rpcLog' = Append(rpcLog, "sendrawtransaction")
         /\ sendOutcome' = o
         /\ heightAtSend' = height
         /\ result' = RunResult(ret)
         /\ failure' = IF ret # "None" THEN failure ELSE RpcDiagnostic(o)
         /\ pc' = AfterSend(ret)
    /\ UNCHANGED <<inputVars, applyVars, initVars,
                   envVars, block_count, current_height, script,
                   system_fee, network_fee, tx, unsigned_tx, witness,
                   invokeState, signOutcome, reportedGas, signedDigest>>

Next ==
    \/ AdvanceHeight
    \/ Tick
    \/ GetBlockCountValidate
    \/ GetBalance
    \/ BuildScript
    \/ GetBlockCountBuild
    \/ EstimateFees
    \/ BuildTx
    \/ Sign
    \/ Send

Spec == Init /\ [][Next]_vars

----------------------------------------------------------------------------
(* The encoders and builders applied on their own: a case is a function, the *)
(* script whose copy of it is applied, and an input.                         *)

\* SB: scripts/neo3_transaction_builder.py Neo3ScriptBuilder
Builders == {"PD", "ND", "TB", "SR", "SB"}

\* a buffer of L bytes
Buffer(L, f) == [i \in 1..L |-> (f * i + 2 * f) % 256]

PushLengths == {0, 75, 76, 255, 256, 65535, 65536}

PushCases ==
    {<<"pushData", i, Buffer(L, f)>> :
        i \in Builders, L \in PushLengths, f \in 1..NumFills}

\* values to encode, as 8 little-endian bytes: 0, 0xFC, 0xFD, 0xFFFF,
\* 0x10000, 0xFFFFFFFF, 0x100000000
VarintValues ==
    {Wide(0), Wide(252), Wide(253), Wide(65535), Wide(65536),
     <<255, 255, 255, 255, 0, 0, 0, 0>>, <<0, 0, 0, 0, 1, 0, 0, 0>>}

VarintCases ==
    {<<"varint", i, w>> : i \in Deployers, w \in VarintValues}

\* a text of L lower-case letters: what open(path, 'r').read() returns for
\* a file of these bytes
TextBuffer(L, f) == [i \in 1..L |-> 97 + ((f * i + 2 * f) % 26)]

\* contract files: <<nef bytes, manifest text>>, short ones and ones that
\* reach the 1-byte and 2-byte push classes
ScriptInputs ==
    FileInputs
    \cup {<<NefMagic \o Buffer(L, f), TextBuffer(300, f)>> :
             L \in {80, 300}, f \in 1..NumFills}

ScriptCases == {<<"script", i, fl>> : i \in Builders, fl \in ScriptInputs}

\* digests to sign
SignCases ==
    {<<"sign", i, Sha256(Buffer(40, f))>> :
        i \in Deployers, f \in 1..NumFills}

\* the text with its last character changed
Corrupt(text) ==
    [text EXCEPT ![Len(text)] = IF @ = 50 THEN 51 ELSE 50]

\* version byte, key, optional compression flag, checksum, as a text
WifText(version, key, flag) ==
    LET payload == <<version>> \o key \o flag IN
    Base58Encode(payload \o Checksum(payload))

\* the text "0bad": the character 0 is not in the alphabet
TextBad == <<48, 98, 97, 100>>

\* WIF texts: well formed with and without compression flag, with a wrong
\* checksum, a wrong version byte, a short key, no checksum at all, a
\* character outside the alphabet, the empty text, and MASTER_WIF
WifTexts ==
    {WifText(128, Buffer(32, f), <<1>>) : f \in 1..NumFills}
    \cup {WifText(128, Buffer(32, f), <<>>) : f \in 1..NumFills}
    \cup {Corrupt(WifText(128, Buffer(32, f), <<1>>)) : f \in 1..NumFills}
    \cup {WifText(129, Buffer(32, f), <<1>>) : f \in 1..NumFills}
    \cup {WifText(128, Buffer(31, f), <<1>>) : f \in 1..NumFills}
    \cup {Base58Encode(<<128>> \o Buffer(32, f)) : f \in 1..NumFills}
    \cup {TextBad, <<>>, MASTER_WIF}

WifCases == {<<"wif", i, t>> : i \in WifImpls, t \in WifTexts}

\* address texts: well formed, with a wrong checksum, with a character
\* outside the alphabet, and MASTER_ADDRESS
AddressTexts ==
    {script_hash_to_address(Buffer(20, f)) : f \in 1..NumFills}
    \cup {Corrupt(script_hash_to_address(Buffer(20, f))) : f \in 1..NumFills}
    \cup {TextBad, MASTER_ADDRESS, Corrupt(MASTER_ADDRESS)}

AddressCases == {<<"address", i, t>> : i \in Deployers, t \in AddressTexts}

\* texts to decode: "", "1", "11", "12", "112", "2", "z"
DecodeTexts ==
    {<<>>, <<49>>, <<49, 49>>, <<49, 50>>, <<49, 49, 50>>, <<50>>, <<122>>,
     MASTER_ADDRESS}

DecodeCases == {<<"decode", i, t>> : i \in Deployers, t \in DecodeTexts}

\* byte strings to encode and decode again
RoundTripBytes ==
    {<<>>, <<0>>, <<0, 0>>, <<0, 7>>, <<1, 0>>, <<255, 255>>}
    \cup {Buffer(L, f) : L \in {3, 25}, f \in 1..NumFills}
    \cup {Zeros(f) : f \in 1..NumFills}

RoundTripCases ==
    {<<"roundtrip", i, b>> : i \in Deployers, b \in RoundTripBytes}

\* an integer of the 32-bit range as 8 bytes
IntWide(n) == SignedLE(n, 4) \o (IF n < 0 THEN <<255, 255, 255, 255>>
                                ELSE Zeros(4))

\* integers at the edges of every width, as 8 bytes; the last four are
\* 2^31, -2^31 - 1, 2^63 - 1 and -2^63
PushIntValues ==
    {IntWide(n) : n \in {0, 1, 2, 16, 17, -1, 127, 128, -128, -129, 32767,
                         32768, -32768, -32769, 2147483647,
                         -2147483647 - 1}}
    \cup {<<0, 0, 0, 128, 0, 0, 0, 0>>,
          <<255, 255, 255, 127, 255, 255, 255, 255>>,
          <<255, 255, 255, 255, 255, 255, 255, 127>>,
          <<0, 0, 0, 0, 0, 0, 0, 128>>}

PushIntCases == {<<"pushInt", "SB", w>> : w \in PushIntValues}

\* builds of a transaction that follow each other: arg = <<time of the
\* first build, seconds between two builds>>
BuildCases ==
    {<<"build", i, <<StartClock, e>> >> : i \in Deployers, e \in 0..MaxElapsed}

ApplyCases ==
    PushCases \cup VarintCases \cup ScriptCases \cup SignCases
    \cup WifCases \cup AddressCases \cup DecodeCases \cup RoundTripCases
    \cup PushIntCases \cup BuildCases

\* no pipeline run
RunIdle ==
    /\ variant = "none"
    /\ nef = <<>>
    /\ manifest = <<>>
    /\ master_wif = <<>>
    /\ self_private_key = <<>>
    /\ entropy = <<>>
    /\ height = StartHeight
    /\ gas = 0
    /\ clock = StartClock
    /\ advances = 0
    /\ ticks = 0
    /\ pc = "done"
    /\ rpcLog = <<>>
    /\ block_count = 0
    /\ current_height = 0
    /\ script = <<>>
    /\ system_fee = <<>>
    /\ network_fee = 0
    /\ tx = NoTx
    /\ unsigned_tx = <<>>
    /\ witness = <<>>
    /\ signed_tx = <<>>
    /\ result = "None"
    /\ failure = "None"
    /\ sendOutcome = "None"
    /\ invokeState = "None"
    /\ signOutcome = "None"
    /\ reportedGas = -1
    /\ heightAtSend = 0
    /\ signedDigest = <<>>

InitApply ==
    /\ RunIdle
    /\ InitIdle
    /\ \E c \in ApplyCases : fn = c[1] /\ impl = c[2] /\ arg = c[3]
    /\ outs = <<>>

ApplyPushData ==
    /\ fn = "pushData"
    /\ outs = <<>>
    /\ outs' = <<PushDataOf(impl, arg)>>
    /\ UNCHANGED <<fn, impl, arg, runVars, initVars>>

ApplyVarint ==
    /\ fn = "varint"
    /\ outs = <<>>
    /\ outs' = <<VarintOf(impl, arg)>>
    /\ UNCHANGED <<fn, impl, arg, runVars, initVars>>

\* the script builder of each script on the files arg = <<nef, manifest>>;
\* the validating scripts return no script for files they reject
ApplyScript ==
    /\ fn = "script"
    /\ outs = <<>>
    /\ outs' = <<IF InputAccepted(impl, arg[1], arg[2])
                 THEN DeployScript(impl, arg[1], arg[2]) ELSE <<>> >>
    /\ UNCHANGED <<fn, impl, arg, runVars, initVars>>

\* the signature function of each script, called again on the same digest
\* with the same key
ApplySign ==
    /\ fn = "sign"
    /\ Len(outs) < MaxSignings
    /\ \E source \in Entropies(impl, NumDraws) :
         outs' = Append(outs, SignatureOf(impl, private_key, arg, source))
    /\ UNCHANGED <<fn, impl, arg, runVars, initVars>>

ApplyWif ==
    /\ fn = "wif"
    /\ outs = <<>>
    /\ outs' = <<wif_to_private_key(impl, arg)>>
    /\ UNCHANGED <<fn, impl, arg, runVars, initVars>>

ApplyAddress ==
    /\ fn = "address"
    /\ outs = <<>>
    /\ outs' = <<address_to_script_hash(arg)>>
    /\ UNCHANGED <<fn, impl, arg, runVars, initVars>>

ApplyDecode ==
    /\ fn = "decode"
    /\ outs = <<>>
    /\ outs' = <<base58_decode(arg)>>
    /\ UNCHANGED <<fn, impl, arg, runVars, initVars>>

\* the encoding loop of script_hash_to_address, then base58_decode
ApplyRoundTrip ==
    /\ fn = "roundtrip"
    /\ outs = <<>>
    /\ outs' = <<base58_decode(Base58Encode(arg))>>
    /\ UNCHANGED <<fn, impl, arg, runVars, initVars>>

ApplyPushInt ==
    /\ fn = "pushInt"
    /\ outs = <<>>
    /\ outs' = <<emit_push_int_wide(arg)>>
    /\ UNCHANGED <<fn, impl, arg, runVars, initVars>>

\* one more build of the transaction for the same script, arg[2] seconds
\* after the previous one, with the system fee the dry run gave this time
ApplyBuild ==
    /\ fn = "build"
    /\ Len(outs) < MaxBuilds
    /\ \E g \in GasConsumedValues :
         outs' = Append(outs, NewTx(impl, arg[1] + Len(outs) * arg[2],
                                    Wide(g), NetworkFee(impl, NefGood),
                                    StartHeight, NefGood))
    /\ UNCHANGED <<fn, impl, arg, runVars, initVars>>

NextApply ==
    \/ ApplyPushData
    \/ ApplyVarint
    \/ ApplyScript
    \/ ApplySign
    \/ ApplyWif
    \/ ApplyAddress
    \/ ApplyDecode
    \/ ApplyRoundTrip
    \/ ApplyPushInt
    \/ ApplyBuild

SpecApply == InitApply /\ [][NextApply]_vars

----------------------------------------------------------------------------
(* Contract initialization.  An operation is issued when its neo-mamba       *)
(* command is run (AI) or its transaction is passed to send_raw_transaction *)
(* (EI); it succeeded when the script's own test of the outcome passes.      *)

InitScripts == {"AI", "EI"}

\* the contract operations in the order of the steps 1, 2, 3 of both scripts
Operations == <<"initialize", "addOracle", "setMinOracles">>

\* 0.5 GAS, the balance below which execute-initialization.py stops
MinInitGas == DatoshiPerGas \div 2

InitGasAmounts == {0, MinInitGas - 1, MinInitGas}

\* the item on top of the stack of a getOwner result: the stack is empty,
\* the item is null (type Any), the item is a byte string
StackItems == {"none", "Any", "ByteString"}

\* what the getOwner query can give: the request raises, the response has no
\* result, or a result with the state of the VM and a stack.  A contract
\* with an owner halts with the owner on the stack and one without halts
\* with an empty stack or null; an execution that did not halt can leave any
\* stack
OwnerAnswers(already) ==
    {[response |-> r, state |-> "None", item |-> "none"] :
         r \in {"exception", "no_result"}}
    \cup {[response |-> "result", state |-> "FAULT", item |-> i] :
              i \in StackItems}
    \cup {[response |-> "result", state |-> "HALT", item |-> i] :
              i \in IF already THEN {"ByteString"} ELSE {"none", "Any"}}

\* check_initialization of auto-initialize.py: rpc_call returns None when the
\* request raised; the state of the result is not looked at
check_initialization(answer) ==
    IF answer.response # "result" THEN FALSE
    ELSE IF answer.item \in {"none", "Any"} THEN FALSE
    ELSE TRUE

\* the test on the getOwner result in main of execute-initialization.py
AppearsInitialized(answer) ==
    /\ answer.state = "HALT"
    /\ answer.item # "none"
    /\ answer.item # "Any"

\* install_neo_mamba: neo-mamba --version ran ("available"); it raised and
\* pip install returned 0 ("installed") or another code ("refused"); or pip
\* install raised TimeoutExpired or FileNotFoundError inside the except
\* branch, which nothing catches ("raised")
InstallOutcomes == {"available", "installed", "refused", "raised"}

\* the value install_neo_mamba returns when it returns
install_neo_mamba(outcome) == outcome \in {"available", "installed"}

\* run_neo_mamba_command: True for return code 0 only
run_neo_mamba_command(outcome) == outcome = "success"

CommandOutcomes == {"success", "failed", "timeout"}

\* create_and_send_transaction: the hash when send_raw_transaction returned
\* one ("sent"); None when it raised or returned nothing ("rejected") and
\* when get_block_count or sign raised before it ("not_sent")
create_and_send_transaction(outcome) ==
    IF outcome = "sent" THEN "0xtxhash" ELSE "None"

SendOutcomes == {"sent", "rejected"}

InitInitialize ==
    /\ RunIdle
    /\ fn = "none"
    /\ impl = "none"
    /\ arg = <<>>
    /\ outs = <<>>
    /\ init_script \in InitScripts
    /\ already_initialized \in BOOLEAN
    /\ env_key \in (IF init_script = "AI" THEN BOOLEAN ELSE {FALSE})
    /\ init_gas \in (IF init_script = "EI" THEN InitGasAmounts ELSE {0})
    /\ ipc = IF init_script = "AI" THEN "check" ELSE "balance"
    /\ check_seen = NoAnswer
    /\ issued = <<>>
    /\ succeeded = <<>>
    /\ reports = <<>>

\* main of auto-initialize.py up to the call of initialize_contract
CheckInitialization ==
    /\ init_script = "AI"
    /\ ipc = "check"
    /\ \E a \in OwnerAnswers(already_initialized) :
         /\ check_seen' = a
         /\ IF check_initialization(a)
            THEN /\ reports' = Append(reports, "already initialized")
                 /\ ipc' = "done"
            ELSE /\ ipc' = "prepare"
                 /\ UNCHANGED reports
    /\ UNCHANGED <<initInputs, issued, succeeded, runVars, applyVars>>

\* initialize_contract up to step 1: the key from the environment, then
\* install_neo_mamba; an exception of pip install leaves main with a
\* traceback and none of its messages
PrepareCommands ==
    /\ init_script = "AI"
    /\ ipc = "prepare"
    /\ IF ~env_key
       THEN ipc' = "done" /\ reports' = Append(reports, "failed")
       ELSE \E o \in InstallOutcomes :
              IF o = "raised"
              THEN ipc' = "done" /\ reports' = Append(reports, "uncaught")
              ELSE IF install_neo_mamba(o)
              THEN ipc' = "op" /\ UNCHANGED reports
              ELSE ipc' = "done" /\ reports' = Append(reports, "failed")
    /\ UNCHANGED <<initInputs, check_seen, issued, succeeded, runVars,
                   applyVars>>

\* one step of initialize_contract: the command of the next operation is
\* run; after the third one main prints the completion
RunCommand ==
    /\ init_script = "AI"
    /\ ipc = "op"
    /\ \E o \in CommandOutcomes :
         LET k == Len(issued) + 1 IN
         /\ issued' = Append(issued, Operations[k])
         /\ IF run_neo_mamba_command(o)
            THEN /\ succeeded' = Append(succeeded, Operations[k])
                 /\ IF k = Len(Operations)
                    THEN /\ reports' = Append(reports, "completed")
                         /\ ipc' = "done"
                    ELSE UNCHANGED <<reports, ipc>>
            ELSE /\ reports' = Append(reports, "failed")
                 /\ ipc' = "done"
                 /\ UNCHANGED succeeded
    /\ UNCHANGED <<initInputs, check_seen, runVars, applyVars>>

\* main of execute-initialization.py: the balance of the account
CheckBalance ==
    /\ init_script = "EI"
    /\ ipc = "balance"
    /\ \E o \in {"ok", "exception"} :
         IF o = "exception"
         THEN ipc' = "done" /\ reports' = Append(reports, "error")
         ELSE IF init_gas < MinInitGas
         THEN ipc' = "done" /\ reports' = Append(reports, "insufficient")
         ELSE ipc' = "check" /\ UNCHANGED reports
    /\ UNCHANGED <<initInputs, check_seen, issued, succeeded, runVars,
                   applyVars>>

\* main of execute-initialization.py: the getOwner query; the client raises
\* when the request fails
CheckOwner ==
    /\ init_script = "EI"
    /\ ipc = "check"
    /\ \E a \in OwnerAnswers(already_initialized) :
         /\ check_seen' = a
         /\ IF a.response # "result"
            THEN ipc' = "done" /\ reports' = Append(reports, "error")
            ELSE IF AppearsInitialized(a)
            THEN /\ ipc' = "done"
                 /\ reports' = Append(reports, "already initialized")
            ELSE ipc' = "build" /\ UNCHANGED reports
    /\ UNCHANGED <<initInputs, issued, succeeded, runVars, applyVars>>

\* the operation the run of execute-initialization.py is at
NextOperation == Len(succeeded) + 1

\* contract.call_function for the next operation (and Contract(CONTRACT_HASH)
\* before the first); an exception reaches the except branch of main
BuildCall ==
    /\ init_script = "EI"
    /\ ipc = "build"
    /\ \E o \in {"built", "exception"} :
         IF o = "built"
         THEN /\ ipc' = IF NextOperation = 1 THEN "test" ELSE "op_height"
              /\ UNCHANGED reports
         ELSE ipc' = "done" /\ reports' = Append(reports, "error")
    /\ UNCHANGED <<initInputs, check_seen, issued, succeeded, runVars,
                   applyVars>>

\* the dry run of the initialize script
TestInvoke ==
    /\ init_script = "EI"
    /\ ipc = "test"
    /\ \E o \in {"HALT", "FAULT", "exception"} :
         IF o = "HALT" THEN ipc' = "op_height" /\ UNCHANGED reports
         ELSE /\ ipc' = "done"
              /\ reports' = Append(reports, IF o = "FAULT" THEN "test failed"
                                             ELSE "error")
    /\ UNCHANGED <<initInputs, check_seen, issued, succeeded, runVars,
                   applyVars>>

\* create_and_send_transaction up to valid_until_block: get_block_count; an
\* exception makes the function return None and main stops
OperationHeight ==
    /\ init_script = "EI"
    /\ ipc = "op_height"
    /\ \E o \in {"ok", "not_sent"} :
         IF o = "ok" THEN ipc' = "op_sign" /\ UNCHANGED reports
         ELSE /\ create_and_send_transaction(o) = "None"
              /\ ipc' = "done"
              /\ reports' = Append(reports, "failed to send")
    /\ UNCHANGED <<initInputs, check_seen, issued, succeeded, runVars,
                   applyVars>>

\* create_and_send_transaction: the witness and transaction.sign(account)
OperationSign ==
    /\ init_script = "EI"
    /\ ipc = "op_sign"
    /\ \E o \in {"ok", "not_sent"} :
         IF o = "ok" THEN ipc' = "op_send" /\ UNCHANGED reports
         ELSE /\ create_and_send_transaction(o) = "None"
              /\ ipc' = "done"
              /\ reports' = Append(reports, "failed to send")
    /\ UNCHANGED <<initInputs, check_seen, issued, succeeded, runVars,
                   applyVars>>

\* create_and_send_transaction: send_raw_transaction, and the test of
\* tx_hash in main
SendOperation ==
    /\ init_script = "EI"
    /\ ipc = "op_send"
    /\ \E o \in SendOutcomes :
         LET tx_hash == create_and_send_transaction(o) IN
         /\ issued' = Append(issued, Operations[NextOperation])
         /\ IF tx_hash # "None"
            THEN /\ succeeded' = Append(succeeded, Operations[NextOperation])
                 /\ ipc' = "wait"
                 /\ UNCHANGED reports
            ELSE /\ reports' = Append(reports, "failed to send")
                 /\ ipc' = "done"
                 /\ UNCHANGED succeeded
    /\ UNCHANGED <<initInputs, check_seen, runVars, applyVars>>

\* time.sleep(20) after a transaction was sent, then the next step of main;
\* after the third one main prints that the initialization is complete
WaitConfirmation ==
    /\ init_script = "EI"
    /\ ipc = "wait"
    /\ IF Len(succeeded) = Len(Operations)
       THEN ipc' = "verify" /\ reports' = Append(reports, "complete")
       ELSE ipc' = "build" /\ UNCHANGED reports
    /\ UNCHANGED <<initInputs, check_seen, issued, succeeded, runVars,
                   applyVars>>

\* the queries after the third step
VerifyState ==
    /\ init_script = "EI"
    /\ ipc = "verify"
    /\ \E o \in {"ok", "exception"} :
         reports' = Append(reports, IF o = "ok" THEN "ready" ELSE "error")
    /\ ipc' = "done"
    /\ UNCHANGED <<initInputs, check_seen, issued, succeeded, runVars,
                   applyVars>>

NextInitialize ==
    \/ CheckInitialization
    \/ PrepareCommands
    \/ RunCommand
    \/ CheckBalance
    \/ CheckOwner
    \/ BuildCall
    \/ TestInvoke
    \/ OperationHeight
    \/ OperationSign
    \/ SendOperation
    \/ WaitConfirmation
    \/ VerifyState

SpecInitialize == InitInitialize /\ [][NextInitialize]_vars

----------------------------------------------------------------------------
(* Notions used by the properties *)

SendCount ==
    Cardinality({i \in DOMAIN rpcLog : rpcLog[i] = "sendrawtransaction"})

CurPhase == Phase(variant, pc, failure)

PhaseOrder == {<<"Validating", "ScriptBuilt">>,
               <<"ScriptBuilt", "FeeEstimated">>,
               <<"FeeEstimated", "TransactionBuilt">>,
               <<"TransactionBuilt", "Signed">>,
               <<"Signed", "Submitted">>}

\* number of bytes before validUntilBlock in the unsigned serialization
FeesEnd(v, t) ==
    1 + 4 + Len(VarintOf(v, t.system_fee))
    + Len(VarintOf(v, Wide(t.network_fee)))

\* the validUntilBlock bytes and the signer count byte as serialized
SerializedValidUntil == SubSeq(unsigned_tx, FeesEnd(variant, tx) + 1,
                               FeesEnd(variant, tx) + 4)
SerializedSignerCount == unsigned_tx[FeesEnd(variant, tx) + 5]

\* length of a witness holding a 64-byte signature
FullWitnessLen == Len(WitnessBytes(Zeros(64)))

----------------------------------------------------------------------------
(* Properties *)

OrderedStep ==
    (variant \in Deployers /\ CurPhase' # CurPhase)
      => /\ CurPhase \notin {"Failed", "Submitted"}
         /\ \/ CurPhase' = "Failed"
            \/ <<CurPhase, CurPhase'>> \in PhaseOrder

\* the balance was reported and is not below the minimum
BalanceChecked == reportedGas # -1 /\ ~Insufficient(reportedGas)

\* a state of the chain is entered only when the work that leads to it
\* succeeded: the connectivity and balance checks, the dry run (HALT), the
\* build, the signature, the submission
SuccessfulStep ==
    (variant \in Deployers /\ CurPhase' # CurPhase)
      => /\ CurPhase' = "ScriptBuilt" => BalanceChecked' /\ block_count' > 0
         /\ CurPhase' = "FeeEstimated" => invokeState' = "HALT"
         /\ CurPhase' = "TransactionBuilt" => tx' # NoTx
         /\ CurPhase' = "Signed" => signOutcome' = "ok"
         /\ CurPhase' = "Submitted" => sendOutcome' = "ok"

\* C1 (as claimed): a deployer pipeline enters the states only in the order
\* Validating, ScriptBuilt, FeeEstimated, TransactionBuilt, Signed,
\* Submitted, no state is entered unless the one before it completed
\* successfully, the only other successor of a state is Failed, and Failed
\* and Submitted are final.
C1_StateOrder == [][OrderedStep /\ SuccessfulStep]_vars

\* C2 (as claimed): with a GAS balance below the minimum no
\* sendrawtransaction call is issued, and a run that got the balance reported
\* ends in Failed(InsufficientFunds).
C2_LowBalanceNeverSends ==
    Insufficient(gas)
      => /\ SendCount = 0
         /\ (pc = "done" /\ reportedGas # -1) => failure = "InsufficientFunds"

\* C3 (as claimed): after a dry run that reports a fault no transaction is
\* built, nothing is signed, nothing is sent, and the run ends in
\* Failed(ScriptExecutionFault).
C3_FaultStopsPipeline ==
    invokeState = "FAULT"
      => /\ tx = NoTx
         /\ signOutcome = "None"
         /\ SendCount = 0
         /\ pc = "done" => failure = "ScriptExecutionFault"

\* C4 (as claimed): with NEF bytes that do not start with NEF3 no RPC call
\* is made and the run ends in Failed(InvalidInputFormat).  The runs are
\* those of a deployer that was constructed.
C4_BadNefNoRpc ==
    (~StartsWith(nef, NefMagic) /\ failure # "InvalidWif")
      => /\ rpcLog = <<>>
         /\ pc = "done" => failure = "InvalidInputFormat"

\* C5: sendrawtransaction is called at most once in a run, whatever the
\* outcome of the first call.
C5_SendAtMostOnce == SendCount <= 1

C5_Witness == pc = "done" /\ sendOutcome = "transport" /\ SendCount = 1

\* C6: a signing error ends the run with no witness attached and no
\* sendrawtransaction call; whenever sendrawtransaction is called the
\* transaction is built, signing succeeded, and it carries one full witness
\* for its one signer.
C6_SigningErrorFatal ==
    /\ signOutcome = "error"
         => /\ witness = <<>> /\ tx.witnesses = <<>> /\ signed_tx = <<>>
            /\ SendCount = 0
            /\ pc = "done" /\ failure = "SigningError"
    /\ SendCount > 0
         => /\ signOutcome = "ok"
            /\ tx # NoTx /\ unsigned_tx # <<>>
            /\ Len(witness) = FullWitnessLen
            /\ SerializedSignerCount = 1
            /\ signed_tx[Len(unsigned_tx) + 1] = SerializedSignerCount
            /\ Len(signed_tx) = Len(unsigned_tx) + 1 + FullWitnessLen

C6_Witness == variant = "ND" /\ signOutcome = "error" /\ pc = "done"

\* C7: a finished deployer run reports a transaction hash exactly when its
\* sendrawtransaction call returned a result; when the node answers with an
\* error the run is Failed(RpcError) and reports no hash.
C7_SuccessIffAccepted ==
    (variant \in Deployers /\ pc = "done")
      => /\ (result # "None") <=> (sendOutcome = "ok")
         /\ result # "None" => (failure = "None" /\ CurPhase = "Submitted")
         /\ sendOutcome = "rpcerror"
              => (result = "None" /\ failure = "RpcError"
                  /\ CurPhase = "Failed")

C7_Witness == pc = "done" /\ sendOutcome = "rpcerror" /\ result = "None"

FrozenStep ==
    /\ unsigned_tx # <<>>
         => /\ unsigned_tx' = unsigned_tx
            /\ [tx' EXCEPT !.witnesses = <<>>] = [tx EXCEPT !.witnesses = <<>>]
    /\ witness # <<>> => (witness' = witness /\ tx' = tx)
    /\ SendCount > 0 => (signed_tx' = signed_tx /\ tx' = tx)

\* C8: the submitted bytes are the unsigned serialization that was signed,
\* then the witness count, then the witness; the fields serialize to the
\* same bytes at submission as at signing; the witness is set once; nothing
\* changes after submission.
C8_SubmittedIsSigned ==
    /\ [](SendCount > 0
            => /\ signed_tx = unsigned_tx \o <<1>> \o witness
               /\ SerializeUnsigned(variant, tx) = unsigned_tx
               /\ variant = "PD"
                    => witness = WitnessBytes(simple_ecdsa_sign(
                                     private_key, Sha256(unsigned_tx))))
    /\ [][FrozenStep]_vars

C8_Witness == variant = "ND" /\ SendCount = 1 /\ sendOutcome = "ok"

\* C9: the transaction's validUntilBlock is the height getblockcount
\* returned for the build plus the window, in the fields and in the
\* serialized bytes.
C9_ValidUntilBlock ==
    tx # NoTx
      => /\ current_height > 0
         /\ tx.valid_until_block = current_height + Window
         /\ SerializedValidUntil = LE(current_height + Window, 4)

C9_Witness == tx # NoTx /\ current_height = StartHeight + 1

\* C10 (as claimed): when sendrawtransaction is issued validUntilBlock is
\* greater than the node's height at that moment.
C10_ValidAtSubmission ==
    SendCount > 0 => tx.valid_until_block > heightAtSend

\* C10 (amended): when sendrawtransaction is issued validUntilBlock is
\* greater than the height read for the build, and it is greater than the
\* node's height at that moment exactly when the node has advanced by fewer
\* than Window blocks since that read.
C10_ValidPastReadHeight ==
    SendCount > 0
      => /\ tx.valid_until_block > current_height
         /\ heightAtSend >= current_height
         /\ (tx.valid_until_block > heightAtSend)
              <=> (heightAtSend - current_height < Window)

C10_Witness ==
    /\ SendCount > 0
    /\ heightAtSend > current_height
    /\ tx.valid_until_block > heightAtSend

\* C11: from Signed onward the signed transaction has as many witnesses as
\* signers: the witness list is as long as the signer list, and the witness
\* count byte of the signed bytes equals the serialized signer count and
\* counts the witnesses that follow it.
C11_WitnessPerSigner ==
    signOutcome = "ok"
      => /\ variant = "ND"
              => /\ Len(tx.witnesses) = Len(tx.signers)
                 /\ Len(tx.signers) = SerializedSignerCount
         /\ (variant # "ND" \/ SendCount > 0)
              => /\ signed_tx[Len(unsigned_tx) + 1] = SerializedSignerCount
                 /\ Len(signed_tx) = Len(unsigned_tx) + 1
                        + SerializedSignerCount * FullWitnessLen

C11_Witness == variant = "PD" /\ pc = "send" /\ signOutcome = "ok"

\* C12 (as claimed): rpc_call tells its caller which of the three outcomes
\* occurred: for getblockcount, get_current_block_height and
\* sendrawtransaction the values returned for two different outcomes differ.
C12_ThreeOutcomes ==
    \A o1, o2 \in RpcOutcomes :
        o1 # o2
          => /\ rpc_call(o1, height, 0) # rpc_call(o2, height, 0)
             /\ rpc_call(o1, "0xtxhash", "None")
                  # rpc_call(o2, "0xtxhash", "None")

\* the opcode and length prefix of each push class
PushHeader(class, L) ==
    CASE class = "direct" -> <<L>>
      [] class = "len1" -> <<12, L>>
      [] class = "len2" -> <<13, L % 256, L \div 256>>
      [] OTHER -> <<14, L % 256, (L \div 256) % 256, (L \div 65536) % 256,
                    L \div 16777216>>

MinimalPushClass(L) ==
    IF L <= 75 THEN "direct"
    ELSE IF L <= 255 THEN "len1"
    ELSE IF L <= 65535 THEN "len2" ELSE "len4"

\* C13 (as claimed): pushData on a buffer of L bytes gives the header of
\* the minimal class for L, whose length prefix is L, followed by the
\* buffer unchanged.
C13_MinimalPush ==
    (fn = "pushData" /\ outs # <<>>)
      => outs[1] = PushHeader(MinimalPushClass(Len(arg)), Len(arg)) \o arg

\* the length of the smallest varint class that fits the value
MinimalVarintLen(w) ==
    IF HighZero(w, 2) /\ w[1] < 253 THEN 1
    ELSE IF HighZero(w, 3) THEN 3
    ELSE IF HighZero(w, 5) THEN 5 ELSE 9

\* the value a varint decoder reads, as 8 little-endian bytes
DecodeVarint(e) ==
    LET n == IF e[1] < 253 THEN 0
             ELSE IF e[1] = 253 THEN 2 ELSE IF e[1] = 254 THEN 4 ELSE 8
    IN IF n = 0 THEN <<e[1]>> \o Zeros(7)
       ELSE IF Len(e) < 1 + n THEN <<>>
       ELSE SubSeq(e, 2, 1 + n) \o Zeros(8 - n)

\* C14 (as claimed): the varint encoder uses the smallest marker class that
\* fits the value, and decoding the encoding gives the value again.
C14_VarintRoundTrip ==
    (fn = "varint" /\ outs # <<>>)
      => /\ Len(outs[1]) = MinimalVarintLen(arg)
         /\ DecodeVarint(outs[1]) = arg

\* pushData as the ScriptBuilder defines it
CanonicalPush(data) ==
    PushHeader(MinimalPushClass(Len(data)), Len(data)) \o data

\* a script was built by the function applied on its own
ScriptBuiltAlone == fn = "script" /\ outs # <<>> /\ outs[1] # <<>>

\* the 20 bytes pushed for the target contract and the 4 bytes that follow
\* the syscall opcode, at the end of a script
PushedHash(s) == SubSeq(s, Len(s) - 24, Len(s) - 5)
SyscallId(s) == SubSeq(s, Len(s) - 3, Len(s))

\* C15 (as claimed): the deployment script is the concatenation of
\* pushData(manifest), pushData(NEF), the push of 2, PACK, pushData("deploy"),
\* pushData of the 20 hash bytes and the syscall opcode with its 4
\* identifier bytes, and nothing else.
C15_ScriptConcatenation ==
    ScriptBuiltAlone
      => outs[1] = CanonicalPush(arg[2]) \o CanonicalPush(arg[1])
                   \o <<82>> \o <<193>> \o CanonicalPush(DeployName)
                   \o CanonicalPush(PushedHash(outs[1]))
                   \o <<65>> \o SyscallId(outs[1])

\* C16 (as claimed): the 20 bytes pushed for the target contract are the
\* reversal of the display form of the management contract hash.
C16_HashReversedOnce ==
    ScriptBuiltAlone
      => /\ PushedHash(outs[1]) = Reverse(ManagementDisplay)
         /\ outs[1][Len(outs[1]) - 25] = 20

\* C17 (as claimed): every script ends with the syscall opcode 0x41 and the
\* 4 little-endian bytes of the contract-call identifier, the same five
\* bytes in every builder.
C17_SyscallBytes ==
    ScriptBuiltAlone
      => SubSeq(outs[1], Len(outs[1]) - 4, Len(outs[1]))
           = <<65>> \o LE(SYSTEM_CONTRACT_CALL, 4)

\* C18 (as claimed): the digest handed to the signature function is SHA-256,
\* applied once, of the network magic followed by the unsigned serialization.
C18_SigningHash ==
    signOutcome = "ok"
      => signedDigest = Sha256(LE(NetworkMagic, 4) \o unsigned_tx)

\* C19 (as claimed): signing the same digest with the same key again gives
\* the same signature, of 64 bytes.
C19_DeterministicSignature ==
    fn = "sign"
      => \A i, j \in DOMAIN outs :
             Len(outs[i]) = 64 /\ outs[i] = outs[j]

\* the two scripts of a serialized witness
InvocationScript(w) == SubSeq(w, 2, 1 + w[1])
VerificationScript(w) == SubSeq(w, 3 + w[1], Len(w))

\* C20 (as claimed): the invocation script of the witness is pushData of
\* the 64-byte signature in its minimal class, and the verification script
\* is pushData of a 33-byte public key followed by the syscall opcode and
\* 4 identifier bytes.
C20_WitnessScripts ==
    witness # <<>>
      => LET inv == InvocationScript(witness)
             ver == VerificationScript(witness)
         IN /\ Len(inv) >= 64
            /\ inv = CanonicalPush(SubSeq(inv, Len(inv) - 63, Len(inv)))
            /\ Len(ver) = 1 + 33 + 5
            /\ ver = CanonicalPush(SubSeq(ver, 2, 34)) \o <<65>>
                      \o SubSeq(ver, 36, 39)

\* the bytes a text decodes to, leading zero bytes included
DecodedBytes(text) == base58_decode(text).val

\* the trailing 4 bytes are the checksum of the bytes before them
ChecksumOk(d) ==
    /\ Len(d) >= 4
    /\ Slice(d, Len(d) - 4, Len(d)) = Checksum(Slice(d, 0, Len(d) - 4))

\* a text that passes the checked decode and the version and length
\* validation of a WIF
ValidWif(text) ==
    /\ InAlphabet(text)
    /\ LET d == DecodedBytes(text) IN
       /\ ChecksumOk(d)
       /\ d[1] = 128
       /\ \/ Len(d) = 1 + 32 + 4
          \/ Len(d) = 1 + 32 + 1 + 4 /\ d[34] = 1

\* C21 (as claimed): fromWif fails, or the text passes the checked decode
\* and the version and length validation and the 32 bytes after the version
\* byte are returned.
C21_WifPayloadOrFailure ==
    (fn = "wif" /\ outs # <<>>)
      => \/ outs[1].err # "none"
         \/ /\ ValidWif(arg)
            /\ outs[1].val = Slice(DecodedBytes(arg), 1, 33)

\* C22 (as claimed): a text whose trailing 4 bytes are not the checksum of
\* the bytes before them is rejected: no script hash and no private key is
\* returned for it.
C22_ChecksumRejected ==
    (fn \in {"address", "wif"} /\ outs # <<>> /\ InAlphabet(arg)
       /\ ~ChecksumOk(DecodedBytes(arg)))
      => outs[1].err # "none"

\* C23 (as claimed): the decoded bytes start with as many zero bytes as the
\* text has leading '1' characters, and decoding the encoding of a byte
\* string gives the byte string again.
C23_LeadingZeros ==
    /\ (fn = "decode" /\ outs # <<>> /\ outs[1].err = "none")
         => LeadingCount(outs[1].val, 0, 1) = LeadingCount(arg, 49, 1)
    /\ (fn = "roundtrip" /\ outs # <<>>)
         => outs[1] = Ok(arg)

\* C24: the network fee of a submitted transaction is at least 1000 per
\* byte of what was passed to sendrawtransaction, that is of the unsigned
\* serialization followed by the serialized witnesses.
C24_FeeCoversWitness ==
    (variant \in Deployers /\ SendCount > 0)
      => /\ Len(signed_tx) >= Len(unsigned_tx) + FullWitnessLen
         /\ tx.network_fee >= FeePerByte * Len(signed_tx)

C24_Witness ==
    /\ variant \in Deployers
    /\ SendCount > 0
    /\ tx.network_fee = NetworkFee(variant, script)
    /\ Len(signed_tx) > Len(script) + FullWitnessLen


\* the smallest signed width, in bytes, that represents the argument
MinimalIntWidth(w) ==
    IF SignExtends(w, 1) THEN 1
    ELSE IF SignExtends(w, 2) THEN 2
    ELSE IF SignExtends(w, 4) THEN 4 ELSE 8

\* PUSHINT8, PUSHINT16, PUSHINT32 of OpCode and the opcode that follows them
PushIntOpcode(k) == CASE k = 1 -> 0 [] k = 2 -> 1 [] k = 4 -> 2 [] OTHER -> 3

\* C25 (as claimed): for every 64-bit integer pushInt emits one byte when
\* the integer is in 0..16, and otherwise the opcode of the smallest signed
\* width among 8, 16, 32 and 64 bits followed by the integer in that width,
\* little-endian.
C25_PushIntWidths ==
    (fn = "pushInt" /\ outs # <<>>)
      => /\ outs[1].err = "none"
         /\ IF HighZero(arg, 2) /\ arg[1] <= 16
            THEN Len(outs[1].val) = 1
            ELSE outs[1].val = <<PushIntOpcode(MinimalIntWidth(arg))>>
                               \o SubSeq(arg, 1, MinimalIntWidth(arg))

\* C26 (as claimed): two transactions built one after the other carry
\* different nonces, however short the time between the two builds and
\* whether or not a fee changed.
C26_DistinctNonces ==
    (fn = "build" /\ Len(outs) >= 2)
      => \A i, j \in DOMAIN outs : i # j => outs[i].nonce # outs[j].nonce

\* C27 (as claimed): the deployer holds private-key material only while
\* sign() executes.  sign() is one step of the run, so in every state between
\* two steps, before the signing as well as after it, the object holds no
\* key.
C27_KeyOnlyInSign == variant \in Deployers => self_private_key = <<>>

\* a varint as the format defines it: the value itself below 0xFD, else the
\* marker of the smallest class and the value in 2, 4 or 8 bytes
VarintBytes(w) ==
    LET n == MinimalVarintLen(w) IN
    IF n = 1 THEN <<w[1]>>
    ELSE <<(CASE n = 3 -> 253 [] n = 5 -> 254 [] OTHER -> 255)>>
         \o SubSeq(w, 1, n - 1)

\* the fixed layout of the unsigned serialization for one signer of scope 0
\* and no attributes
UnsignedLayout(t, account) ==
    <<t.version>> \o t.nonce \o VarintBytes(t.system_fee)
    \o VarintBytes(Wide(t.network_fee)) \o LE(t.valid_until_block, 4)
    \o <<1>> \o account \o <<0>>
    \o <<0>>
    \o VarintBytes(Wide(Len(t.script))) \o t.script

\* C28: serialize_unsigned_tx and serialize_unsigned emit exactly version
\* (1 byte), nonce (4 bytes), varint system fee, varint network fee,
\* validUntilBlock (4 bytes), the signer count and each signer as 20-byte
\* script hash and scope byte, the attribute count, and the varint script
\* length followed by the script, in this order and with no other bytes.
C28_UnsignedLayout ==
    (variant \in {"PD", "ND"} /\ unsigned_tx # <<>>)
      => /\ Len(tx.nonce) = 4
         /\ Len(script_hash) = 20
         /\ tx.script = script
         /\ unsigned_tx = UnsignedLayout(tx, script_hash)

C28_Witness ==
    /\ variant = "ND"
    /\ unsigned_tx # <<>>
    /\ Len(VarintBytes(tx.system_fee)) = 9
    /\ Len(VarintBytes(Wide(tx.network_fee))) = 5
    /\ Len(unsigned_tx) = 1 + 4 + 9 + 5 + 4 + 1 + 21 + 1 + 1 + Len(script)

\* the verification script every deployer writes into its witness
CheckWitnessScript == <<12, 20>> \o script_hash \o <<65, 158, 208, 220, 58>>

\* RIPEMD160(SHA256(m)): the digest of CheckWitnessScript is the one hashlib
\* computes, 3e001185fa0c7c6f9efd74f226602aaa36471fc6; other messages get a
\* fixed 20-byte value that depends on the message
Hash160(m) ==
    IF m = CheckWitnessScript
    THEN <<62, 0, 17, 133, 250, 12, 124, 111, 158, 253, 116, 242, 38, 96, 42,
           170, 54, 71, 31, 198>>
    ELSE Slice(Sha256(Sha256(m)), 0, 20)

\* the 20-byte account of the one signer as serialized
SerializedSignerHash == SubSeq(unsigned_tx, FeesEnd(variant, tx) + 6,
                               FeesEnd(variant, tx) + 25)

\* C29 (as claimed): in a signed transaction the script hash of the signer
\* equals RIPEMD160(SHA256(verification script)) of its witness.
C29_SignerFromVerification ==
    (variant \in Deployers /\ signOutcome = "ok")
      => /\ SerializedSignerCount = 1
         /\ SerializedSignerHash = Hash160(VerificationScript(witness))

\* s is an initial part of t
IsPrefix(s, t) == Len(s) <= Len(t) /\ s = SubSeq(t, 1, Len(s))

\* the messages that report a completed initialization
SuccessReports == {"completed", "complete"}

\* C30 (as claimed): the operations are issued in the order initialize,
\* addOracle, setMinOracles, each only after the one before it succeeded;
\* the completion is reported only if all three succeeded; and none is
\* issued when the contract was initialized already.
C30_InitializationOrder ==
    init_script \in InitScripts
      => /\ IsPrefix(issued, Operations)
         /\ IsPrefix(succeeded, issued)
         /\ Len(issued) <= Len(succeeded) + 1
         /\ (\E i \in DOMAIN reports : reports[i] \in SuccessReports)
              => succeeded = Operations
         /\ already_initialized => issued = <<>>

====
